---- MODULE Spec2Model ----
(***************************************************************************)
(* Hemsworth V6.3 two-week training system (src/app.py).                   *)
(*                                                                         *)
(* The program is a Streamlit script: every user interaction re-runs the   *)
(* whole script, which loads the two exercise libraries, the log           *)
(* (user_logs.csv), the custom day layouts (Hemsworth_Custom_Days.csv)     *)
(* and, on demand, the undo buffer (undo_last_save.csv), walks the day     *)
(* tabs, and executes the handler of the one button that was pressed.      *)
(* The state of the model is what survives between two runs: the three     *)
(* CSV files, the libraries and the session's mode radio.  One action is   *)
(* one run of the script with one button pressed.                          *)
(***************************************************************************)
EXTENDS Integers, Sequences, FiniteSets, TLC

VARIABLES
    dfW1,         \* Week 1 library as loaded by load_excel_as_str (app.py:173)
    dfW2,         \* Week 2 library as loaded by load_excel_as_str (app.py:174)
    mode,         \* the training-mode radio of the session (app.py:183)
    custom_file,  \* data/Hemsworth_Custom_Days.csv: [exists, rows of text cells]
    log_file,     \* data/user_logs.csv: [exists, rows of text cells]
    undo_file,    \* data/undo_last_save.csv: [exists, rows of text cells]
    clock,        \* the wall clock in minutes (datetime.now() at minute granularity)
    button,       \* the button the last run handled ("" when none was pressed)
    message,      \* what the last run reported through st.success / st.info
    edited,       \* history: the tab and the rows handed to the last run's layout save
    lastBulk,     \* history: the rows (as CSV text) of the most recent 'Save ALL'
    logBefore,    \* history: the log and the undo buffer the last Save ALL run found;
                  \* an undo that follows keeps it
    runs,         \* history: the number of runs of the session so far
    sess,         \* the tables each concurrent session holds in memory during a run
    shown,        \* what the resolve calls of the last plain run returned
    report        \* what the Progress tab of the last filter run displayed

vars == <<dfW1, dfW2, mode, custom_file, log_file, undo_file, clock,
          button, message, edited, lastBulk, logBefore, runs,
          sess, shown, report>>

-----------------------------------------------------------------------------
(* Bounds of the model *)

\* the log is never appended to beyond this many rows
MaxLog == 3
\* the wall clock runs through minutes 1..MaxClock
MaxClock == 2
\* a session of the full specification is at most this many runs of the script
MaxRuns == 3

-----------------------------------------------------------------------------
(* Values *)

\* a blank spreadsheet cell as pandas holds it (float NaN)
NaN == "<NaN>"
\* Python's None (an st.selectbox over an empty option list)
None == "<None>"

\* REQUIRED_PLAN_COLS of app.py; x stands for the characters app.py has
\* between Sets and Reps
REQUIRED_PLAN_COLS ==
    <<"Week", "DayTag", "Order", "Lift / Exercise", "Purpose / Role",
      "Region / Muscle Focus", "Standard SetsxReps", "Hemsworth SetsxReps", "Rest">>

LOG_COLS ==
    <<"Date", "Week", "DayTag", "Lift / Exercise", "Weight (lbs)", "Reps", "Notes", "Mode">>

Range(s) == {s[i] : i \in DOMAIN s}

\* the day tabs the script walks (the first of tab_names[:7])
TabDays == <<"Day 1">>

\* the day tabs whose stored rows the properties look at
AskedDays == {"Day 1", "Day 2"}

\* tab_names[:7], the day tabs in the order the script walks them
TabNames == <<"Day 1", "Day 2", "Day 3", "Day 4", "Day 5", "Day 6", "Core">>

Weeks == {"1", "2"}

Modes == {"Standard", "Hemsworth High Volume"}

\* sets_col of the selected mode
sets_col(m) == IF m = "Standard" THEN "Standard SetsxReps" ELSE "Hemsworth SetsxReps"

-----------------------------------------------------------------------------
(* Text: str.strip, str.lower, str(int), pd.to_numeric on the strings used *)

\* str.strip on the day tags and the column names of the libraries
Strip(s) ==
    CASE s = " day 1" -> "day 1"
      [] s = "DAY 1 " -> "DAY 1"
      [] s = " DayTag " -> "DayTag"
      [] OTHER -> s

\* the column names of the model, after strip, that contain "rest" in lower
\* case
RestLike == {"Rest", "REST", "Rest (sec)"}

\* str.lower on the day tags and tab names
Lower(s) ==
    CASE s \in {"Day 1", "DAY 1"} -> "day 1"
      [] s = "DAY 1 " -> "day 1 "
      [] s \in {"Day 2", "DAY 2"} -> "day 2"
      [] s = "Day 3" -> "day 3"
      [] s = "Day 4" -> "day 4"
      [] s = "Day 5" -> "day 5"
      [] s = "Day 6" -> "day 6"
      [] s \in {"Core", "CORE"} -> "core"
      [] OTHER -> s

Digit == <<"0", "1", "2", "3", "4", "5", "6", "7", "8", "9">>

\* str(n) / the text to_csv writes for an integer cell
RECURSIVE IntStr(_)
IntStr(n) == IF n < 10 THEN Digit[n + 1] ELSE IntStr(n \div 10) \o Digit[(n % 10) + 1]

\* the integers whose numerals the model can read back
Numerals == 0 .. 12

NumeralTable == [n \in Numerals |-> IntStr(n)]

\* pd.to_numeric(errors="coerce").fillna(1).astype(int) on one cell
OrderOfCell(c) ==
    IF \E n \in Numerals : NumeralTable[n] = c
    THEN CHOOSE n \in Numerals : NumeralTable[n] = c
    ELSE 1

\* the text to_csv writes for a text cell: NaN and None become the empty field
CsvText(v) == IF v = NaN \/ v = None THEN "" ELSE v

-----------------------------------------------------------------------------
(* Frames: a DataFrame is the sequence of its rows, a row a function from  *)
(* column names to cells.  A CSV file is [exists, rows], every cell text.  *)

\* r.get(c, default) of a pandas Series
Get(r, c, default) == IF c \in DOMAIN r THEN r[c] ELSE default

\* str(v) of a library cell
PyStr(v) == IF v = NaN THEN "nan" ELSE v

Absent == [exists |-> FALSE, rows |-> <<>>]

\* df.to_csv(path, index=False) of a plan frame: Order is an integer column
PlanRowCsv(r) ==
    [c \in DOMAIN r |-> IF c = "Order" THEN IntStr(r[c]) ELSE CsvText(r[c])]

\* save_csv(custom_days, CUSTOM_DAY_PATH)
save_csv_plan(df) ==
    [exists |-> TRUE, rows |-> [i \in DOMAIN df |-> PlanRowCsv(df[i])]]

\* df.to_csv(path, index=False) of freshly built log rows: Weight and Reps are
\* the integers of st.number_input
LogRowCsv(r) ==
    [c \in DOMAIN r |->
        IF c \in {"Weight (lbs)", "Reps"} THEN IntStr(r[c]) ELSE CsvText(r[c])]

\* variant: only the rows built in this run are written
save_csv_log_built(loaded, built) ==
    [exists |-> TRUE, rows |-> [i \in DOMAIN built |-> LogRowCsv(built[i])]]

\* variant: the new rows are added to the file as it is on disk
save_csv_log_merge(loaded, built) ==
    [exists |-> TRUE,
     rows |-> (IF log_file.exists THEN log_file.rows ELSE <<>>)
                \o [i \in DOMAIN built |-> LogRowCsv(built[i])]]

\* df.to_csv(path, index=False) of the log: the rows loaded with dtype=str are
\* written back as the text they are, the rows built in this run are converted
save_csv_log(loaded, built) ==
    [exists |-> TRUE, rows |-> loaded \o [i \in DOMAIN built |-> LogRowCsv(built[i])]]

\* load_logs: the rows of the file with exactly the columns LOG_COLS, a column
\* the file lacks filled with "", or an empty frame when the file is absent
load_logs(file) ==
    LET df == IF file.exists THEN file.rows ELSE <<>>
    IN  [i \in DOMAIN df |-> [c \in Range(LOG_COLS) |-> Get(df[i], c, "")]]

\* load_custom_days: as load_logs, with Order read back as an integer
load_custom_days(file) ==
    LET df == IF file.exists THEN file.rows ELSE <<>>
    IN  [i \in DOMAIN df |->
            [c \in Range(REQUIRED_PLAN_COLS) |->
                IF c = "Order" THEN OrderOfCell(Get(df[i], c, ""))
                ELSE Get(df[i], c, "")]]

-----------------------------------------------------------------------------
(* The exercise libraries (the two spreadsheets) *)

LIB_COLS ==
    <<"DayTag", "Lift / Exercise", "Purpose / Role", "Region / Muscle Focus",
      "Standard SetsxReps", "Hemsworth SetsxReps", "Rest">>

LibRow(tag, lift, purpose, region, std, hv, rest) ==
    [c \in Range(LIB_COLS) |->
        CASE c = "DayTag" -> tag
          [] c = "Lift / Exercise" -> lift
          [] c = "Purpose / Role" -> purpose
          [] c = "Region / Muscle Focus" -> region
          [] c = "Standard SetsxReps" -> std
          [] c = "Hemsworth SetsxReps" -> hv
          [] OTHER -> rest]

\* Week 1 sheet: two lifts of Day 1 under tags that differ from the tab name in
\* case and blanks, a Day 2 row of the same lift between them, a blank cell
SheetW1 ==
    [exists |-> TRUE,
     rows |-> << LibRow(" day 1", "Squat", "Main", "Legs", "3x10", "5x10", "90"),
                 LibRow("Day 2", "Bench", "Volume", "Chest", "4x8", "6x8", "60"),
                 LibRow("DAY 1 ", "Bench", NaN, "Chest", "3x8", "5x8", NaN) >>]

\* a shorter Week 1 sheet: one lift of Day 1
SheetW1Short ==
    [exists |-> TRUE,
     rows |-> << LibRow(" day 1", "Squat", "Main", "Legs", "3x10", "5x10", "90"),
                 LibRow("Day 2", "Bench", "Volume", "Chest", "4x8", "6x8", "60") >>]

\* Week 2 sheet: one lift of Day 1, a lift that Week 1 holds with other values
SheetW2 ==
    [exists |-> TRUE,
     rows |-> << LibRow("Day 1", "Bench", "Variation", "Chest", "5x5", "8x5", "120") >>]

\* a Week 2 sheet with no row of Day 1
SheetW2Rest ==
    [exists |-> TRUE,
     rows |-> << LibRow("Day 2", "Bench", "Variation", "Chest", "5x5", "8x5", "120") >>]

SheetMissing == [exists |-> FALSE, rows |-> <<>>]

\* a sheet that names its day column "Day": there is no "DayTag" column
SheetNoDayTag ==
    [exists |-> TRUE,
     rows |-> << [c \in {"Day", "Lift / Exercise", "Rest"} |->
                    CASE c = "Day" -> "Day 1"
                      [] c = "Lift / Exercise" -> "Squat"
                      [] OTHER -> "90"] >>]

\* a sheet of some other table: none of the library columns
SheetUnrelated ==
    [exists |-> TRUE,
     rows |-> << [c \in {"Item", "Qty"} |-> IF c = "Item" THEN "Chalk" ELSE "2"] >>]

\* a sheet with its header line and no row
SheetEmpty == [exists |-> TRUE, rows |-> <<>>]

\* a sheet whose header cells are padded and whose rest column is in capitals
SheetPadded ==
    [exists |-> TRUE,
     rows |-> << [c \in {" DayTag ", "Lift / Exercise", "REST"} |->
                    CASE c = " DayTag " -> "Day 1"
                      [] c = "Lift / Exercise" -> "Squat"
                      [] OTHER -> NaN] >>]

\* _normalize_cols_str: the column names are stripped
normalize_cols_str(df) ==
    [i \in DOMAIN df |->
        [c \in {Strip(k) : k \in DOMAIN df[i]} |->
            df[i][CHOOSE k \in DOMAIN df[i] : Strip(k) = c]]]

\* _coerce_rest_to_str: a column whose name contains "rest" is renamed to Rest,
\* and the Rest column becomes text (a sheet has at most one such column)
coerce_rest_to_str(df) ==
    [i \in DOMAIN df |->
        [c \in (DOMAIN df[i] \ RestLike)
                 \cup (IF DOMAIN df[i] \cap RestLike = {} THEN {} ELSE {"Rest"}) |->
            IF c = "Rest"
            THEN PyStr(df[i][CHOOSE k \in DOMAIN df[i] \cap RestLike : TRUE])
            ELSE df[i][c]]]

\* load_excel_as_str: an empty shell when the file is missing
load_excel_as_str(sheet) ==
    IF ~sheet.exists THEN <<>>
    ELSE coerce_rest_to_str(normalize_cols_str(sheet.rows))

Libraries == {load_excel_as_str(SheetW1), load_excel_as_str(SheetW1Short),
              load_excel_as_str(SheetW2),
              load_excel_as_str(SheetW2Rest), load_excel_as_str(SheetMissing)}

\* the libraries a start-up can load, the odd sheets included
LibrariesAny ==
    Libraries \cup {load_excel_as_str(SheetNoDayTag), load_excel_as_str(SheetUnrelated),
                    load_excel_as_str(SheetEmpty), load_excel_as_str(SheetPadded)}

\* df.columns of a frame with rows
Columns(df) == IF df = <<>> THEN {} ELSE DOMAIN df[1]

\* the outcome of a call that raises KeyError instead of returning a frame
KeyError == << [raised |-> "KeyError"] >>

-----------------------------------------------------------------------------
(* Plan resolution *)

\* the permutations of 1..n
Perms(n) == {p \in [1 .. n -> 1 .. n] : \A i, j \in 1 .. n : i # j => p[i] # p[j]}

\* df.sort_values("Order"): pandas' default kind is quicksort, which promises
\* no order among rows of equal Order; every arrangement in ascending Order is
\* an outcome
sort_values_Order(df) ==
    { [i \in DOMAIN df |-> df[p[i]]] :
        p \in {q \in Perms(Len(df)) :
                 \A i, j \in DOMAIN df : i < j => df[q[i]]["Order"] <= df[q[j]]["Order"]} }

\* variant: the requested Order values are kept as they are
Renumber_keep(df) == df

\* df["Order"] = range(1, len(df)+1)
Renumber(df) == [i \in DOMAIN df |-> [df[i] EXCEPT !["Order"] = i]]

\* normalize_order: the set of frames the call can return
normalize_order(df) ==
    IF df = <<>> THEN {df}
    ELSE {Renumber(s) : s \in sort_values_Order(df)}

\* plan_row_from_master
plan_row_from_master(day, week, order, src) ==
    [c \in Range(REQUIRED_PLAN_COLS) |->
        CASE c = "Week" -> week
          [] c = "DayTag" -> day
          [] c = "Order" -> order
          [] c = "Rest" -> PyStr(Get(src, "Rest", ""))
          [] OTHER -> Get(src, c, "")]

\* variant: the stored tag is compared in lower case, as the library tag is
OverrideRows_nocase(custom_days, week, day) ==
    SelectSeq(custom_days,
              LAMBDA r : r["Week"] = week /\ Lower(r["DayTag"]) = Lower(day))

\* the rows of custom_days stored under (week, day): exact match on both
OverrideRows(custom_days, week, day) ==
    SelectSeq(custom_days, LAMBDA r : r["Week"] = week /\ r["DayTag"] = day)

\* variant: the library tags are compared as they are
BaseRows_exact(dfW, day) ==
    SelectSeq(dfW, LAMBDA r : PyStr(r["DayTag"]) = day)

\* the library rows of a day: tags stripped, compared in lower case
BaseRows(dfW, day) ==
    SelectSeq(dfW, LAMBDA r : Lower(Strip(PyStr(r["DayTag"]))) = Lower(day))

\* variant: the library plan wins over the stored rows whenever it has rows
get_day_plan_base_first(day, week, dfW, custom_days) ==
    LET cd == OverrideRows(custom_days, week, day)
        base == BaseRows(dfW, day)
    IN  IF base # <<>>
        THEN {[i \in DOMAIN base |-> plan_row_from_master(day, week, i, base[i])]}
        ELSE normalize_order(cd)

\* get_day_plan: the set of plans the call can return (custom override > base)
get_day_plan(day, week, dfW, custom_days) ==
    LET cd == OverrideRows(custom_days, week, day)
        base == BaseRows(dfW, day)
    IN  IF cd # <<>> THEN normalize_order(cd)
        ELSE IF dfW = <<>> THEN {<<>>}
        ELSE IF "DayTag" \notin Columns(dfW) THEN {KeyError}
        ELSE {[i \in DOMAIN base |-> plan_row_from_master(day, week, i, base[i])]}

\* the frame objects a call of get_day_plan works with: the two it is given,
\* and the ones it makes
FrameObjects == {"dfW", "custom_days", "cd", "cd.copy()", "dfW.copy()"}

\* variant: no copy is made, the name on the left is bound to the object df
copy_none(df, made) == df

\* df.copy() (app.py:150, 158): the object the name on the left is bound to, a
\* frame of its own (`made`) that holds the rows of df
copy(df, made) == made

\* cd["Order"] = pd.to_numeric(cd["Order"], errors="coerce").fillna(1).astype(int)
\* (app.py:151) on the Order values of custom_days, which load_custom_days has
\* made integers
coerce_Order(df) ==
    [i \in DOMAIN df |-> [df[i] EXCEPT !["Order"] = IF @ \in Int THEN @ ELSE 1]]

\* base["DayTag"] = base["DayTag"].astype(str).str.strip() (app.py:159)
strip_DayTag(df) ==
    [i \in DOMAIN df |-> [df[i] EXCEPT !["DayTag"] = Strip(PyStr(@))]]

\* get_day_plan as its caller sees it (app.py:144-168): what a call returns
\* and the rows the caller's two frames hold when it returns.  heap maps a
\* frame object to its rows; an assignment to a column changes the object the
\* name is bound to, and with it every name bound to that object.
get_day_plan_call(day, week, dfW, custom_days) ==
    LET h0 == [o \in FrameObjects |->
                  CASE o = "dfW" -> dfW
                    [] o = "custom_days" -> custom_days
                    \* cd = custom_days[...]: the selection is a frame of its own
                    [] o = "cd" -> OverrideRows(custom_days, week, day)
                    [] o = "cd.copy()" -> OverrideRows(custom_days, week, day)
                    [] o = "dfW.copy()" -> dfW]
        Returned(out, h) ==
            [out |-> out, dfW |-> h["dfW"], custom_days |-> h["custom_days"]]
    IN  IF h0["cd"] # <<>>
        THEN LET cd == copy("cd", "cd.copy()")
                 h1 == [h0 EXCEPT ![cd] = coerce_Order(@)]
             IN  { Returned(out, h1) : out \in normalize_order(h1[cd]) }
        ELSE IF h0["dfW"] = <<>> THEN { Returned(<<>>, h0) }
        ELSE LET base == copy("dfW", "dfW.copy()")
             IN  IF "DayTag" \notin Columns(h0[base]) THEN { Returned(KeyError, h0) }
                 ELSE LET h1 == [h0 EXCEPT ![base] = strip_DayTag(@)]
                          \* base = base[base["DayTag"].str.lower() == day.lower()]
                          rows == SelectSeq(h1[base],
                                            LAMBDA r : Lower(r["DayTag"]) = Lower(day))
                      IN  { Returned([i \in DOMAIN rows |->
                                        plan_row_from_master(day, week, i, rows[i])],
                                     h1) }

\* get_master_row: Week 1 first, then Week 2; the first row of that lift
get_master_row(W1, W2, lift_name) ==
    LET Hit(src) == SelectSeq(src, LAMBDA r : Get(r, "Lift / Exercise", NaN) = lift_name)
        Meta(r) ==
            [c \in {"Purpose / Role", "Region / Muscle Focus", "Standard SetsxReps",
                    "Hemsworth SetsxReps", "Rest"} |->
                IF c = "Rest" THEN PyStr(Get(r, c, "")) ELSE Get(r, c, "")]
    IN  IF Hit(W1) # <<>> THEN Meta(Hit(W1)[1])
        ELSE IF Hit(W2) # <<>> THEN Meta(Hit(W2)[1])
        ELSE [c \in {"Purpose / Role", "Region / Muscle Focus", "Standard SetsxReps",
                     "Hemsworth SetsxReps", "Rest"} |-> ""]

\* combine_master_lifts: the lift names of both libraries (blank cells dropped)
combine_master_lifts(W1, W2) ==
    {r["Lift / Exercise"] :
        r \in {x \in Range(W1) \cup Range(W2) :
                 "Lift / Exercise" \in DOMAIN x /\ x["Lift / Exercise"] # NaN}}

\* dfW_active
dfW_active(week, W1, W2) == IF week = "1" THEN W1 ELSE W2

-----------------------------------------------------------------------------
(* What the user can enter *)

\* the Order number_input of the layout editor (1..999 in the program)
OrderChoices == {1, 2}

\* the SetsxReps text_input of the layout editor; "" leaves the prescription
SetsChoices == {"", "5x5"}

\* the Weight and Reps number_inputs and the Notes text_input of a logged set
WeightChoices == {135}

RepsChoices == {5}

NotesChoices == {""}

\* the number of rows of the from-scratch day builder (1..40 in the program)
AddRowsChoices == {1}

\* what st.selectbox(options) returns: an option, or None when there is none
Selectbox(options) == IF options = {} THEN {None} ELSE options

\* the widgets of one row of the layout editor; a removed row's other
\* widgets are not read
EditChoices(master) ==
    [action : {"Keep"}, replace_with : {None}, new_order : OrderChoices,
     new_sets : SetsChoices]
    \cup [action : {"Replace"}, replace_with : Selectbox(master),
          new_order : OrderChoices, new_sets : SetsChoices]
    \cup [action : {"Remove"}, replace_with : {None}, new_order : {1}, new_sets : {""}]

\* the widgets of one logged set
SetChoices == [w : WeightChoices, r : RepsChoices, n : NotesChoices]

-----------------------------------------------------------------------------
(* The layout editor *)

\* variant: a typed prescription replaces the prescriptions of both modes
EditedRow_both_modes(row, a, week, day, m, W1, W2) ==
    IF a.action = "Replace" /\ a.replace_with # None
    THEN LET meta == get_master_row(W1, W2, a.replace_with)
         IN  [c \in Range(REQUIRED_PLAN_COLS) |->
                CASE c = "Week" -> week
                  [] c = "DayTag" -> day
                  [] c = "Order" -> a.new_order
                  [] c = "Lift / Exercise" -> a.replace_with
                  [] c \in {"Standard SetsxReps", "Hemsworth SetsxReps"} ->
                        IF a.new_sets # "" THEN a.new_sets ELSE meta[c]
                  [] OTHER -> meta[c]]
    ELSE [c \in Range(REQUIRED_PLAN_COLS) |->
            CASE c = "Order" -> a.new_order
              [] c = sets_col(m) -> IF a.new_sets # "" THEN a.new_sets ELSE row[c]
              [] OTHER -> row[c]]

\* one pass of the loop over the plan rows (app.py:262-286) for a row that is
\* not removed
EditedRow(row, a, week, day, m, W1, W2) ==
    IF a.action = "Replace" /\ a.replace_with # None
    THEN LET meta == get_master_row(W1, W2, a.replace_with)
         IN  [c \in Range(REQUIRED_PLAN_COLS) |->
                CASE c = "Week" -> week
                  [] c = "DayTag" -> day
                  [] c = "Order" -> a.new_order
                  [] c = "Lift / Exercise" -> a.replace_with
                  [] c \in {"Standard SetsxReps", "Hemsworth SetsxReps"} ->
                        IF sets_col(m) = c /\ a.new_sets # "" THEN a.new_sets ELSE meta[c]
                  [] OTHER -> meta[c]]
    ELSE [c \in Range(REQUIRED_PLAN_COLS) |->
            CASE c = "Order" -> a.new_order
              [] c = sets_col(m) -> IF a.new_sets # "" THEN a.new_sets ELSE row[c]
              [] OTHER -> row[c]]

\* the indices of the plan rows that are not removed, ascending
KeptIdx(acts) ==
    SelectSeq([i \in DOMAIN acts |-> i], LAMBDA i : acts[i].action # "Remove")

\* edited_rows after the loop over the plan
edited_rows(plan, acts, week, day, m, W1, W2) ==
    LET idx == KeptIdx(acts)
    IN  [k \in DOMAIN idx |-> EditedRow(plan[idx[k]], acts[idx[k]], week, day, m, W1, W2)]

\* variant: no stored row is dropped, the saved rows are added to the store
OtherRows_all(custom_days, week, day) == custom_days

\* variant: the mask is not negated, the rows of the key are the ones kept
OtherRows_key(custom_days, week, day) ==
    SelectSeq(custom_days, LAMBDA r : r["Week"] = week /\ r["DayTag"] = day)

\* variant: the mask looks at the day only, the rows of the day are dropped
\* for every week
OtherRows_day(custom_days, week, day) ==
    SelectSeq(custom_days, LAMBDA r : r["DayTag"] # day)

\* custom_days[~((Week == week) & (DayTag == day))]
OtherRows(custom_days, week, day) ==
    SelectSeq(custom_days, LAMBDA r : ~(r["Week"] = week /\ r["DayTag"] = day))

\* what the user types into the three text inputs of a builder row; None
\* leaves the input at the value the builder pre-fills
BuilderChoices == [std : {None, "5x5"}, hv : {None}, purpose : {None}]

\* st.text_input(value=v) with the text 'typed' in it: the input hands back
\* text, a blank master cell comes back as the text "nan"
text_input(v, typed) == IF typed = None THEN PyStr(v) ELSE typed

\* new_entries of the from-scratch builder: row i takes lift lifts[i], the
\* three text inputs (pre-filled from the master row) and the region and rest
\* of the master row
new_entries(lifts, typed, week, day, W1, W2) ==
    [i \in DOMAIN lifts |->
        LET meta == get_master_row(W1, W2, lifts[i])
        IN  [c \in Range(REQUIRED_PLAN_COLS) |->
                CASE c = "Week" -> week
                  [] c = "DayTag" -> day
                  [] c = "Order" -> i
                  [] c = "Lift / Exercise" -> lifts[i]
                  [] c = "Standard SetsxReps" -> text_input(meta[c], typed[i].std)
                  [] c = "Hemsworth SetsxReps" -> text_input(meta[c], typed[i].hv)
                  [] c = "Purpose / Role" -> text_input(meta[c], typed[i].purpose)
                  [] OTHER -> meta[c]]]

-----------------------------------------------------------------------------
(* The log *)

\* datetime.now().strftime("%Y-%m-%d %H:%M") at minute t of the session
DateStr(t) == "2024-01-01 10:0" \o IntStr(t)

\* the dict of one logged set (app.py:330-339 and 343-352)
log_row(t, week, day, row, in, m) ==
    [c \in Range(LOG_COLS) |->
        CASE c = "Date" -> DateStr(t)
          [] c = "Week" -> week
          [] c = "DayTag" -> day
          [] c = "Lift / Exercise" -> row["Lift / Exercise"]
          [] c = "Weight (lbs)" -> in.w
          [] c = "Reps" -> in.r
          [] c = "Notes" -> in.n
          [] OTHER -> m]

\* the minutes datetime.now() can answer in n calls of one run that starts at
\* minute t0: the first call falls in the minute of the start, the minute can
\* turn between two calls
Stamps(n, t0) ==
    {ts \in [1 .. n -> t0 .. MaxClock] :
        /\ (n >= 1 => ts[1] = t0)
        /\ \A i \in 1 .. n - 1 : ts[i] <= ts[i + 1]}

\* bulk_rows after the loop over the plan: row i is stamped by its own call of
\* datetime.now(), which answered ts[i]
bulk_rows(ts, week, day, plan, ins, m) ==
    [i \in DOMAIN plan |-> log_row(ts[i], week, day, plan[i], ins[i], m)]

\* variant: a log row is undone when it names the lift of an undo row
undo_merge_by_lift(user_log, undo_df) ==
    SelectSeq(user_log,
              LAMBDA r : \A i \in DOMAIN undo_df :
                           undo_df[i]["Lift / Exercise"] # r["Lift / Exercise"])

\* user_log.merge(undo_df.assign(_flag=1), on=LOG_COLS, how="left") and the
\* filter _flag != 1: the log rows equal on every column to no undo row
undo_merge(user_log, undo_df) ==
    SelectSeq(user_log, LAMBDA r : \A i \in DOMAIN undo_df : undo_df[i] # r)

\* variant: the buffer records the first row of the bulk only
save_undo_first(rows) == save_csv_log(<<>>, SubSeq(rows, 1, 1))

\* pd.DataFrame(bulk_rows, columns=LOG_COLS).to_csv(UNDO_PATH, index=False)
save_undo(rows) == save_csv_log(<<>>, rows)

-----------------------------------------------------------------------------
(* The Progress tab (app.py:384-439) *)

\* the numbers whose numerals occur in the Weight and Reps cells of the model
LogNumerals == {0, 5, 6, 135, 200, 210}

LogNumeralTable == [n \in LogNumerals |-> IntStr(n)]

\* variant: a cell that is not a number counts as 1
to_numeric_fill0_as1(c) ==
    IF \E n \in LogNumerals : LogNumeralTable[n] = c
    THEN CHOOSE n \in LogNumerals : LogNumeralTable[n] = c
    ELSE 1

\* pd.to_numeric(errors="coerce").fillna(0) on one cell
to_numeric_fill0(c) ==
    IF \E n \in LogNumerals : LogNumeralTable[n] = c
    THEN CHOOSE n \in LogNumerals : LogNumeralTable[n] = c
    ELSE 0

\* user_log after the 'safe numeric' lines: Weight and Reps are numbers and
\* Volume is their product (the Date column, parsed to datetimes, is kept as
\* its text here)
with_volume(user_log) ==
    [i \in DOMAIN user_log |->
        [c \in Range(LOG_COLS) \cup {"Volume"} |->
            CASE c = "Weight (lbs)" -> to_numeric_fill0(user_log[i][c])
              [] c = "Reps" -> to_numeric_fill0(user_log[i][c])
              [] c = "Volume" -> to_numeric_fill0(user_log[i]["Weight (lbs)"])
                                   * to_numeric_fill0(user_log[i]["Reps"])
              [] OTHER -> user_log[i][c]]]

\* the options of the three filter selectboxes
FilterChoices(user_log) ==
    [wk : {"All", "1", "2"},
     d : {"All"} \cup {user_log[i]["DayTag"] : i \in DOMAIN user_log},
     l : {"All"} \cup {user_log[i]["Lift / Exercise"] : i \in DOMAIN user_log}]

\* f: the rows that pass the filters
filtered(user_log, flt) ==
    SelectSeq(user_log,
              LAMBDA r : /\ (flt.wk # "All" => r["Week"] = flt.wk)
                         /\ (flt.d # "All" => r["DayTag"] = flt.d)
                         /\ (flt.l # "All" => r["Lift / Exercise"] = flt.l))

\* the greatest number of a non-empty set
Max(S) == CHOOSE x \in S : \A y \in S : y <= x

\* variant: the record of a lift is its one set of greatest volume
prs_best_set(f) ==
    { LET rows == {i \in DOMAIN f : f[i]["Lift / Exercise"] = lift}
          best == CHOOSE i \in rows : \A j \in rows : f[j]["Volume"] <= f[i]["Volume"]
      IN  [lift |-> lift, max_weight |-> f[best]["Weight (lbs)"],
           max_reps |-> f[best]["Reps"], max_volume |-> f[best]["Volume"]] :
      lift \in {f[i]["Lift / Exercise"] : i \in DOMAIN f} }

\* prs: f.groupby("Lift / Exercise").agg(max, max, max), as the set of its rows
prs(f) ==
    { LET rows == {i \in DOMAIN f : f[i]["Lift / Exercise"] = lift}
      IN  [lift |-> lift,
           max_weight |-> Max({f[i]["Weight (lbs)"] : i \in rows}),
           max_reps |-> Max({f[i]["Reps"] : i \in rows}),
           max_volume |-> Max({f[i]["Volume"] : i \in rows})] :
      lift \in {f[i]["Lift / Exercise"] : i \in DOMAIN f} }

-----------------------------------------------------------------------------
(* The state after start-up *)

EmptyFile == [exists |-> TRUE, rows |-> <<>>]

\* no Save ALL run whose loaded log is remembered
NoBulk == [set |-> FALSE, rows |-> <<>>, buffer |-> <<>>]

\* the browser sessions that run the script side by side
Sessions == {1, 2}

\* a session between two runs: nothing of a run is in memory
IdleSession ==
    [pc |-> "idle", user_log |-> <<>>, custom_days |-> <<>>, mode |-> "",
     wrote |-> "", added |-> <<>>, table |-> <<>>, at |-> 0]

NoSessions == [s \in Sessions |-> IdleSession]

\* no plain run yet
NoShown == [week |-> "", day |-> "", first |-> <<>>, second |-> <<>>, tabs |-> <<>>]

\* no filter run yet
NoReport == [shown |-> FALSE]

\* no layout save in the last run
NoEdit == [week |-> "", day |-> "", rows |-> <<>>]

\* a first session: a short Week 1 spreadsheet, the Week 2 spreadsheet is
\* missing, and there is no log, no custom days file and no undo buffer yet
Init ==
    /\ dfW1 = load_excel_as_str(SheetW1Short)
    /\ dfW2 = load_excel_as_str(SheetMissing)
    /\ mode \in Modes
    /\ custom_file = Absent
    /\ log_file = Absent
    /\ undo_file = Absent
    /\ clock = 1
    /\ button = ""
    /\ message = ""
    /\ edited = NoEdit
    /\ lastBulk = <<>>
    /\ logBefore = NoBulk
    /\ runs = 0
    /\ sess = NoSessions
    /\ shown = NoShown
    /\ report = NoReport

\* master_lifts_all
master_lifts_all == combine_master_lifts(dfW1, dfW2)

Keys == Weeks \X Range(TabDays)

\* the position of a day tab in tab_names
TabIndex(day) == CHOOSE i \in DOMAIN TabNames : TabNames[i] = day

\* the resolve of the tab of 'day' (app.py:203) raises, which ends the run:
\* get_day_plan comes to base["DayTag"] (app.py:159) with a library that has
\* rows and no DayTag column, no row being stored under the key
RaisesIn(week, day, custom_days) ==
    LET dfW == dfW_active(week, dfW1, dfW2)
    IN  /\ dfW # <<>>
        /\ "DayTag" \notin Columns(dfW)
        /\ OverrideRows(custom_days, week, day) = <<>>

\* the run reaches the tab of 'day': the loop over tab_names[:7] (app.py:199)
\* came through every tab before it
ReachesTab(week, day, custom_days) ==
    \A i \in 1 .. TabIndex(day) - 1 : ~RaisesIn(week, TabNames[i], custom_days)

\* the widgets of the tab of 'day' are drawn with the plan the resolve
\* returned: the run reached the tab and the resolve did not raise
Drawn(week, day, plan, custom_days) ==
    plan # KeyError /\ ReachesTab(week, day, custom_days)

\* the run with the week radio at 'week' comes through all the day tabs
WalksDayTabs(week) ==
    \A i \in DOMAIN TabNames :
       ~RaisesIn(week, TabNames[i], load_custom_days(custom_file))

\* variant: the Progress tab never halts the script
ReachesResetTab_always == TRUE

\* the Reset tab is the last tab of the script: it is rendered in a run that
\* came through the day tabs and loaded a log with rows, since the Progress tab
\* halts the script when the log is empty (st.stop)
ReachesResetTab ==
    /\ load_logs(log_file) # <<>>
    /\ \E week \in Weeks : WalksDayTabs(week)

-----------------------------------------------------------------------------
(* The runs of the script, one per button.  Every run loads custom_days   *)
(* and user_log from the files and resolves the plan of the tab first.    *)

\* what a run leaves alone unless its handler says otherwise
Session == UNCHANGED <<dfW1, dfW2, mode, clock, sess, shown, report>>

\* 'Save <day> Layout' of the layout editor (app.py:245-296)
SaveLayout ==
    \E k \in Keys : \E custom_days \in {load_custom_days(custom_file)} :
    \E plan \in get_day_plan(k[2], k[1], dfW_active(k[1], dfW1, dfW2), custom_days) :
      /\ Drawn(k[1], k[2], plan, custom_days)
      /\ plan # <<>>
      /\ \E acts \in [DOMAIN plan -> EditChoices(master_lifts_all)] :
         \E rows \in {edited_rows(plan, acts, k[1], k[2], mode, dfW1, dfW2)} :
         \E new_day_df \in normalize_order(rows) :
           /\ custom_file' = save_csv_plan(OtherRows(custom_days, k[1], k[2]) \o new_day_df)
           /\ edited' = [week |-> k[1], day |-> k[2], rows |-> rows]
      /\ button' = "save_layout"
      /\ message' = "Saved custom layout"
      /\ logBefore' = NoBulk
      /\ Session
      /\ UNCHANGED <<log_file, undo_file, lastBulk>>

\* 'Save New <day> Layout' of the from-scratch builder (app.py:207-242)
SaveNewLayout ==
    \E k \in Keys : \E custom_days \in {load_custom_days(custom_file)} :
    \E plan \in get_day_plan(k[2], k[1], dfW_active(k[1], dfW1, dfW2), custom_days) :
      /\ Drawn(k[1], k[2], plan, custom_days)
      /\ plan = <<>>
      /\ \E add_rows \in AddRowsChoices :
         \E lifts \in [1 .. add_rows -> Selectbox(master_lifts_all)] :
         \E typed \in [1 .. add_rows -> BuilderChoices] :
         \E rows \in {new_entries(lifts, typed, k[1], k[2], dfW1, dfW2)} :
         \E out \in normalize_order(rows) :
           /\ custom_file' = save_csv_plan(OtherRows(custom_days, k[1], k[2]) \o out)
           /\ edited' = [week |-> k[1], day |-> k[2], rows |-> rows]
      /\ button' = "save_new"
      /\ message' = "Saved new custom layout"
      /\ logBefore' = NoBulk
      /\ Session
      /\ UNCHANGED <<log_file, undo_file, lastBulk>>

\* 'Reset <day> to Default' (app.py:297-301)
ResetLayout ==
    \E k \in Keys : \E custom_days \in {load_custom_days(custom_file)} :
    \E plan \in get_day_plan(k[2], k[1], dfW_active(k[1], dfW1, dfW2), custom_days) :
      /\ Drawn(k[1], k[2], plan, custom_days)
      /\ plan # <<>>
      /\ custom_file' = save_csv_plan(OtherRows(custom_days, k[1], k[2]))
      /\ edited' = [NoEdit EXCEPT !.week = k[1], !.day = k[2]]
      /\ button' = "reset_layout"
      /\ message' = "Reset to default"
      /\ logBefore' = NoBulk
      /\ Session
      /\ UNCHANGED <<log_file, undo_file, lastBulk>>

\* the per-row 'Save' of a logged set (app.py:329-342)
SaveSet ==
    \E k \in Keys : \E user_log \in {load_logs(log_file)} :
    \E plan \in get_day_plan(k[2], k[1], dfW_active(k[1], dfW1, dfW2),
                             load_custom_days(custom_file)) :
      /\ Drawn(k[1], k[2], plan, load_custom_days(custom_file))
      /\ Len(user_log) < MaxLog
      /\ \E i \in DOMAIN plan : \E in \in SetChoices :
           log_file' = save_csv_log(user_log,
                                    <<log_row(clock, k[1], k[2], plan[i], in, mode)>>)
      /\ button' = "s"
      /\ message' = "Saved."
      /\ edited' = NoEdit
      /\ logBefore' = NoBulk
      /\ Session
      /\ UNCHANGED <<custom_file, undo_file, lastBulk>>

\* 'Save ALL for <day>' (app.py:354-362)
SaveAll ==
    \E k \in Keys : \E user_log \in {load_logs(log_file)} :
    \E plan \in get_day_plan(k[2], k[1], dfW_active(k[1], dfW1, dfW2),
                             load_custom_days(custom_file)) :
      /\ Drawn(k[1], k[2], plan, load_custom_days(custom_file))
      /\ plan # <<>>
      /\ Len(user_log) + Len(plan) <= MaxLog
      /\ \E ins \in [DOMAIN plan -> SetChoices] :
         \E ts \in Stamps(Len(plan), clock) :
         \E rows \in {bulk_rows(ts, k[1], k[2], plan, ins, mode)} :
           /\ undo_file' = save_undo(rows)
           /\ log_file' = save_csv_log(user_log, rows)
           /\ lastBulk' = save_csv_log(<<>>, rows).rows
           /\ clock' = ts[Len(plan)]
      /\ button' = "bulk_save"
      /\ message' = "Saved entries"
      /\ edited' = NoEdit
      /\ logBefore' = [set |-> TRUE, rows |-> user_log, buffer |-> undo_file.rows]
      /\ UNCHANGED <<dfW1, dfW2, mode, sess, shown, report, custom_file>>

\* 'Undo Last Bulk Save' (app.py:363-375)
UndoBulk ==
    \E k \in Keys : \E user_log \in {load_logs(log_file)} :
    \E plan \in get_day_plan(k[2], k[1], dfW_active(k[1], dfW1, dfW2),
                             load_custom_days(custom_file)) :
      /\ Drawn(k[1], k[2], plan, load_custom_days(custom_file))
      /\ plan # <<>>
      /\ IF undo_file.exists
         THEN IF undo_file.rows # <<>>
              THEN /\ log_file' = save_csv_log(undo_merge(user_log, undo_file.rows), <<>>)
                   /\ undo_file' = Absent
                   /\ message' = "Last bulk save undone."
              ELSE /\ message' = ""
                   /\ UNCHANGED <<log_file, undo_file>>
         ELSE /\ message' = "No undo data found."
              /\ UNCHANGED <<log_file, undo_file>>
      /\ button' = "undo_bulk"
      /\ edited' = [NoEdit EXCEPT !.week = k[1], !.day = k[2]]
      /\ UNCHANGED logBefore
      /\ Session
      /\ UNCHANGED <<custom_file, lastBulk>>

\* 'Clear All Logs' of the Reset tab (app.py:450-452)
ClearLogs ==
    /\ ReachesResetTab
    /\ log_file' = EmptyFile
    /\ button' = "clear_logs"
    /\ message' = "All user logs cleared."
    /\ edited' = NoEdit
    /\ logBefore' = NoBulk
    /\ Session
    /\ UNCHANGED <<custom_file, undo_file, lastBulk>>

\* 'Clear Custom Days (All Weeks)' of the Reset tab (app.py:454-456)
ClearCustomDays ==
    /\ ReachesResetTab
    /\ custom_file' = EmptyFile
    /\ button' = "clear_custom"
    /\ message' = "All custom day layouts cleared."
    /\ edited' = NoEdit
    /\ logBefore' = NoBulk
    /\ Session
    /\ UNCHANGED <<log_file, undo_file, lastBulk>>

\* 'Clear Undo Buffer' of the Reset tab (app.py:458-460)
ClearUndo ==
    /\ ReachesResetTab
    /\ undo_file' = Absent
    /\ button' = "clear_undo"
    /\ message' = "Cleared undo buffer."
    /\ edited' = NoEdit
    /\ logBefore' = NoBulk
    /\ Session
    /\ UNCHANGED <<custom_file, log_file, lastBulk>>

\* a run with no button pressed, as a change of the mode radio starts one
\* (app.py:183): the tabs, the Progress dashboard and the export are rendered
\* from the loaded tables; no file is written
Render ==
    /\ mode' \in Modes
    /\ button' = ""
    /\ \E week \in Weeks :
         message' = IF ~WalksDayTabs(week) THEN "KeyError: 'DayTag'"
                    ELSE IF load_logs(log_file) = <<>> THEN "No logs yet."
                    ELSE "Rendered"
    /\ edited' = NoEdit
    /\ logBefore' = NoBulk
    /\ UNCHANGED <<dfW1, dfW2, clock, sess, shown, report>>
    /\ UNCHANGED <<custom_file, log_file, undo_file, lastBulk>>

\* variant: the run writes the table it has in memory back to the log file
Progress_saves ==
    \E user_log \in {load_logs(log_file)} :
      /\ \E week \in Weeks : WalksDayTabs(week)
      /\ user_log # <<>>
      /\ \E flt \in FilterChoices(user_log) :
           report' = [shown |-> TRUE, flt |-> flt, loaded |-> user_log,
                      log |-> with_volume(user_log),
                      prs |-> prs(filtered(with_volume(user_log), flt))]
      /\ log_file' = [exists |-> TRUE, rows |-> with_volume(user_log)]
      /\ button' = ""
      /\ message' = "Rendered"
      /\ UNCHANGED <<dfW1, dfW2, mode, custom_file, undo_file, clock,
                     edited, lastBulk, logBefore, runs, sess, shown>>

\* a run started by a filter selectbox of the Progress tab: the log is made
\* numeric in memory, filtered, aggregated and exported (app.py:390-439);
\* nothing is written
Progress ==
    \E user_log \in {load_logs(log_file)} :
      /\ \E week \in Weeks : WalksDayTabs(week)
      /\ user_log # <<>>
      /\ \E flt \in FilterChoices(user_log) :
           report' = [shown |-> TRUE, flt |-> flt, loaded |-> user_log,
                      log |-> with_volume(user_log),
                      prs |-> prs(filtered(with_volume(user_log), flt))]
      /\ button' = ""
      /\ message' = "Rendered"
      /\ UNCHANGED <<dfW1, dfW2, mode, custom_file, log_file, undo_file, clock,
                     edited, lastBulk, logBefore, runs, sess, shown>>

\* a minute passes
Tick ==
    /\ clock < MaxClock
    /\ clock' = clock + 1
    /\ UNCHANGED <<dfW1, dfW2, mode, custom_file, log_file, undo_file,
                   button, message, edited, lastBulk, logBefore, runs,
          sess, shown, report>>

-----------------------------------------------------------------------------
(* Specifications *)

\* one more run of a session of at most MaxRuns runs
CountRun == runs < MaxRuns /\ runs' = runs + 1

\* a session of at most MaxRuns runs, any button in each
Next ==
    \/ CountRun /\ SaveLayout
    \/ CountRun /\ SaveNewLayout
    \/ CountRun /\ ResetLayout
    \/ CountRun /\ SaveSet
    \/ CountRun /\ SaveAll
    \/ CountRun /\ UndoBulk
    \/ CountRun /\ ClearLogs
    \/ CountRun /\ ClearCustomDays
    \/ CountRun /\ ClearUndo
    \/ CountRun /\ Render
    \/ Tick

Spec == Init /\ [][Next]_vars

\* a session that works on the day layouts: the Week 2 spreadsheet has no row
\* of the day, and the log holds one set saved in an earlier session, so that
\* the Reset tab is rendered; the mode radio keeps the selection the session
\* starts with, which is either mode
InitPlan ==
    /\ dfW1 = load_excel_as_str(SheetW1)
    /\ dfW2 = load_excel_as_str(SheetW2Rest)
    /\ mode \in Modes
    /\ custom_file = Absent
    /\ log_file =
         save_csv_log(<<>>, <<log_row(1, "1", "Day 1",
                                      [c \in {"Lift / Exercise"} |-> "Squat"],
                                      [w |-> 135, r |-> 5, n |-> ""], "Standard")>>)
    /\ undo_file = Absent
    /\ clock = 1
    /\ button = ""
    /\ message = ""
    /\ edited = NoEdit
    /\ lastBulk = <<>>
    /\ logBefore = NoBulk
    /\ runs = 0
    /\ sess = NoSessions
    /\ shown = NoShown
    /\ report = NoReport

NextPlan ==
    \/ SaveLayout /\ UNCHANGED runs
    \/ SaveNewLayout /\ UNCHANGED runs
    \/ ResetLayout /\ UNCHANGED runs
    \/ ClearCustomDays /\ UNCHANGED runs
    \/ Render /\ mode' = mode /\ UNCHANGED runs

SpecPlan == InitPlan /\ [][NextPlan]_vars

\* a session that logs sets against the library plans of both weeks; the undo
\* buffer is absent or holds its header line only; the mode radio keeps the
\* selection the session starts with, which is either mode
InitLog ==
    /\ dfW1 = load_excel_as_str(SheetW1)
    /\ dfW2 = load_excel_as_str(SheetW2)
    /\ mode \in Modes
    /\ custom_file = Absent
    /\ log_file = Absent
    /\ undo_file \in {Absent, EmptyFile}
    /\ clock = 1
    /\ button = ""
    /\ message = ""
    /\ edited = NoEdit
    /\ lastBulk = <<>>
    /\ logBefore = NoBulk
    /\ runs = 0
    /\ sess = NoSessions
    /\ shown = NoShown
    /\ report = NoReport

NextLog ==
    \/ SaveSet /\ UNCHANGED runs
    \/ SaveAll /\ UNCHANGED runs
    \/ UndoBulk /\ UNCHANGED runs
    \/ ClearLogs /\ UNCHANGED runs
    \/ ClearUndo /\ UNCHANGED runs
    \/ Render /\ mode' = mode /\ UNCHANGED runs
    \/ Tick

SpecLog == InitLog /\ [][NextLog]_vars

-----------------------------------------------------------------------------
(* Two sessions side by side.  A run of the script is split in three      *)
(* steps: the load of the log (app.py:175), the load of the custom days    *)
(* (app.py:176) with the reading of the session's own mode radio           *)
(* (app.py:183), and the handler of its button, which writes the table the *)
(* session holds in memory.  Nothing orders the steps of one session       *)
(* against those of the other.                                             *)

\* what a step of a session leaves alone
SessionFrame == UNCHANGED <<dfW1, dfW2, mode, clock, undo_file, edited, lastBulk,
                            logBefore, shown, report>>

\* the top of a run: the log is loaded from its file (app.py:175)
StartRun ==
    \E s \in Sessions :
      /\ sess[s].pc = "idle"
      /\ sess' = [sess EXCEPT ![s] =
                    [IdleSession EXCEPT !.pc = "read_log",
                                        !.user_log = load_logs(log_file)]]
      /\ UNCHANGED <<custom_file, log_file, button, message, runs>>
      /\ SessionFrame

\* the run goes on: the custom days are loaded from their file (app.py:176)
\* and the mode radio of the session is read (app.py:183)
LoadCustom ==
    \E s \in Sessions : \E m \in Modes :
      /\ sess[s].pc = "read_log"
      /\ sess' = [sess EXCEPT ![s] =
                    [@ EXCEPT !.pc = "loaded",
                              !.custom_days = load_custom_days(custom_file),
                              !.mode = m]]
      /\ UNCHANGED <<custom_file, log_file, button, message, runs>>
      /\ SessionFrame

\* the run ends with no button handled
EndRun ==
    \E s \in Sessions :
      /\ sess[s].pc = "loaded"
      /\ sess' = [sess EXCEPT ![s] = IdleSession]
      /\ button' = ""
      /\ message' = IF sess[s].user_log = <<>> THEN "No logs yet." ELSE "Rendered"
      /\ UNCHANGED <<custom_file, log_file, runs>>
      /\ SessionFrame

\* the session after its handler wrote `table`, of which `added` is new
Wrote(s, kind, added, table) ==
    [sess EXCEPT ![s] = [@ EXCEPT !.pc = "idle", !.wrote = kind, !.added = added,
                                  !.table = table, !.at = runs + 1, !.mode = ""]]

\* the per-row 'Save' in a session (app.py:329-342)
SaveSetIn ==
    \E s \in Sessions : \E k \in Keys :
    \E plan \in get_day_plan(k[2], k[1], dfW_active(k[1], dfW1, dfW2),
                             sess[s].custom_days) :
      /\ Drawn(k[1], k[2], plan, sess[s].custom_days)
      /\ sess[s].pc = "loaded"
      /\ Len(sess[s].user_log) < MaxLog
      /\ \E i \in DOMAIN plan : \E in \in SetChoices :
         \E new \in {log_row(clock, k[1], k[2], plan[i], in, sess[s].mode)} :
         \E file \in {save_csv_log(sess[s].user_log, <<new>>)} :
           /\ log_file' = file
           /\ sess' = Wrote(s, "log", <<LogRowCsv(new)>>, file.rows)
      /\ button' = "s"
      /\ message' = "Saved."
      /\ CountRun
      /\ UNCHANGED custom_file
      /\ SessionFrame

\* 'Save New <day> Layout' in a session (app.py:207-242)
SaveNewLayoutIn ==
    \E s \in Sessions : \E k \in Keys :
    \E plan \in get_day_plan(k[2], k[1], dfW_active(k[1], dfW1, dfW2),
                             sess[s].custom_days) :
      /\ Drawn(k[1], k[2], plan, sess[s].custom_days)
      /\ sess[s].pc = "loaded"
      /\ plan = <<>>
      /\ \E add_rows \in AddRowsChoices :
         \E lifts \in [1 .. add_rows -> Selectbox(master_lifts_all)] :
         \E typed \in [1 .. add_rows -> BuilderChoices] :
         \E out \in normalize_order(new_entries(lifts, typed, k[1], k[2], dfW1, dfW2)) :
         \E file \in {save_csv_plan(OtherRows(sess[s].custom_days, k[1], k[2]) \o out)} :
           /\ custom_file' = file
           /\ sess' = Wrote(s, "store", save_csv_plan(out).rows, file.rows)
      /\ button' = "save_new"
      /\ message' = "Saved new custom layout"
      /\ CountRun
      /\ UNCHANGED log_file
      /\ SessionFrame

\* the sessions share libraries that hold no lift for the day, so the day of
\* either week is built from scratch before sets are logged
InitTwo ==
    /\ dfW1 = load_excel_as_str(SheetW2Rest)
    /\ dfW2 = load_excel_as_str(SheetW2Rest)
    /\ mode = "Standard"
    /\ custom_file = Absent
    /\ log_file = Absent
    /\ undo_file = Absent
    /\ clock = 1
    /\ button = ""
    /\ message = ""
    /\ edited = NoEdit
    /\ lastBulk = <<>>
    /\ logBefore = NoBulk
    /\ runs = 0
    /\ sess = NoSessions
    /\ shown = NoShown
    /\ report = NoReport

NextTwo ==
    \/ StartRun
    \/ LoadCustom
    \/ EndRun
    \/ SaveSetIn
    \/ SaveNewLayoutIn
    \/ Tick

SpecTwo == InitTwo /\ [][NextTwo]_vars

-----------------------------------------------------------------------------
(* Resolving against any library and any custom days file *)

\* a row of the custom days file as text
StoreRow(week, day, order, lift) ==
    [c \in Range(REQUIRED_PLAN_COLS) |->
        CASE c = "Week" -> week
          [] c = "DayTag" -> day
          [] c = "Order" -> order
          [] c = "Lift / Exercise" -> lift
          [] c = "Purpose / Role" -> "Accessory"
          [] c = "Region / Muscle Focus" -> "Arms"
          [] c = "Standard SetsxReps" -> "3x12"
          [] c = "Hemsworth SetsxReps" -> "5x12"
          [] OTHER -> "45"]

\* a row of a file that was written without the Rest column
StoreRowNoRest(week, day, order, lift) ==
    [c \in Range(REQUIRED_PLAN_COLS) \ {"Rest"} |-> StoreRow(week, day, order, lift)[c]]

\* the custom days files a start-up can find: none, a header only, rows of
\* Week 1 Day 1 in descending order, an Order cell that is not a number, rows
\* saved under a tag that differs from the tab name in case only, rows of
\* Week 2, a file without the Rest column, two rows of Week 1 Day 2 with the
\* same Order
Stores ==
    { Absent,
      [exists |-> TRUE, rows |-> <<>>],
      [exists |-> TRUE, rows |-> << StoreRow("1", "Day 1", "2", "Curl"),
                                    StoreRow("1", "Day 1", "1", "Row") >>],
      [exists |-> TRUE, rows |-> << StoreRow("1", "Day 1", "abc", "Curl") >>],
      [exists |-> TRUE, rows |-> << StoreRow("1", "DAY 1", "1", "Curl"),
                                    StoreRow("2", "DAY 1", "1", "Curl") >>],
      [exists |-> TRUE, rows |-> << StoreRow("2", "Day 1", "1", "Row"),
                                    StoreRow("2", "Day 2", "1", "Curl") >>],
      [exists |-> TRUE, rows |-> << StoreRowNoRest("1", "Day 2", "1", "Row") >>],
      [exists |-> TRUE, rows |-> << StoreRow("1", "Day 2", "1", "Curl"),
                                    StoreRow("1", "Day 2", "1", "Row") >> ] }

\* the two frames a call of get_day_plan was given, or left behind
Frames(dfW, custom_days) == [dfW |-> dfW, custom_days |-> custom_days]

\* the second resolve of a tab (app.py:304), given the first call and what it
\* was given: sort_values is a function of the frame it sorts, so when the
\* frames are still what the first call was given, the rows of equal Order
\* come in the arrangement the first call returned
second_call(c1, before, day, week) ==
    LET calls == get_day_plan_call(day, week, c1.dfW, c1.custom_days)
    IN  IF Frames(c1.dfW, c1.custom_days) = before
        THEN {c \in calls : c.out = c1.out}
        ELSE calls

\* the loop over the day tabs (app.py:199) from tab i on, with no button
\* pressed: on every tab the plan is resolved before the editor (app.py:203)
\* and again before it is shown (app.py:304), each time from the frames the
\* run holds in memory; an exception ends the run, the tabs after it are not
\* reached.  The set of the walks the run can take; a walk keeps, for every
\* tab, the two plans and the frames before, between and after the two calls.
RECURSIVE WalkTabs(_, _, _, _)
WalkTabs(i, week, dfW, custom_days) ==
    IF i > Len(TabNames) THEN { <<>> }
    ELSE UNION {
           IF c1.out = KeyError
           THEN { << [day |-> TabNames[i], first |-> KeyError, second |-> KeyError,
                      before |-> Frames(dfW, custom_days),
                      between |-> Frames(c1.dfW, c1.custom_days),
                      after |-> Frames(c1.dfW, c1.custom_days)] >> }
           ELSE UNION {
                  { << [day |-> TabNames[i], first |-> c1.out, second |-> c2.out,
                        before |-> Frames(dfW, custom_days),
                        between |-> Frames(c1.dfW, c1.custom_days),
                        after |-> Frames(c2.dfW, c2.custom_days)] >> \o rest :
                      rest \in WalkTabs(i + 1, week, c2.dfW, c2.custom_days) } :
                  c2 \in second_call(c1, Frames(dfW, custom_days), TabNames[i], week) } :
           c1 \in get_day_plan_call(TabNames[i], week, dfW, custom_days) }

\* the walk ended in an exception
Raised(walk) == walk # <<>> /\ walk[Len(walk)].first = KeyError

\* a run with no button pressed, for the week of the week radio: the day tabs
\* are walked in their order, then the Progress tab is rendered
Resolve ==
    \E week \in Weeks :
    \E walk \in WalkTabs(1, week, dfW_active(week, dfW1, dfW2),
                          load_custom_days(custom_file)) :
      /\ shown' = [week |-> week, tabs |-> walk]
      /\ button' = ""
      /\ message' = IF Raised(walk) THEN "KeyError: 'DayTag'"
                    ELSE IF load_logs(log_file) = <<>> THEN "No logs yet."
                    ELSE "Rendered"
      /\ UNCHANGED <<dfW1, dfW2, mode, custom_file, log_file, undo_file, clock,
                     edited, lastBulk, logBefore, runs, sess, report>>

\* a start-up with any pair of libraries and any custom days file
InitResolve ==
    /\ dfW1 \in LibrariesAny
    /\ dfW2 \in LibrariesAny
    /\ mode \in Modes
    /\ custom_file \in Stores
    /\ log_file = Absent
    /\ undo_file = Absent
    /\ clock = 1
    /\ button = ""
    /\ message = ""
    /\ edited = NoEdit
    /\ lastBulk = <<>>
    /\ logBefore = NoBulk
    /\ runs = 0
    /\ sess = NoSessions
    /\ shown = NoShown
    /\ report = NoReport

NextResolve == Resolve

SpecResolve == InitResolve /\ [][NextResolve]_vars

-----------------------------------------------------------------------------
(* The Progress tab over any log *)

\* a row of the log file as text
LogRowText(week, day, lift, w, r) ==
    [c \in Range(LOG_COLS) |->
        CASE c = "Date" -> DateStr(1)
          [] c = "Week" -> week
          [] c = "DayTag" -> day
          [] c = "Lift / Exercise" -> lift
          [] c = "Weight (lbs)" -> w
          [] c = "Reps" -> r
          [] c = "Notes" -> ""
          [] OTHER -> "Standard"]

\* the rows a log file can hold: sets of two lifts, a Weight cell that is not
\* a number, a blank Reps cell
LogRowPool ==
    { LogRowText("1", "Day 1", "Squat", "200", "5"),
      LogRowText("1", "Day 1", "Squat", "210", "5"),
      LogRowText("1", "Day 1", "Squat", "135", "6"),
      LogRowText("2", "Day 1", "Bench", "135", "6"),
      LogRowText("1", "Day 2", "Bench", "abc", "5"),
      LogRowText("2", "Day 2", "Squat", "200", "") }

\* the log files of at most MaxLog - 1 rows
LogFiles ==
    {Absent} \cup
    UNION { {[exists |-> TRUE, rows |-> rows] : rows \in [1 .. n -> LogRowPool]} :
            n \in 0 .. MaxLog - 1 }

\* a start-up over any log file, with one stored layout, with or without an
\* undo buffer; the mode radio, which the Progress tab does not read, keeps
\* its selection
InitProgress ==
    /\ dfW1 = load_excel_as_str(SheetW1Short)
    /\ dfW2 = load_excel_as_str(SheetMissing)
    /\ mode = "Standard"
    /\ custom_file = [exists |-> TRUE,
                       rows |-> <<StoreRow("1", "Day 1", "1", "Curl")>>]
    /\ log_file \in LogFiles
    /\ undo_file \in {Absent, [exists |-> TRUE,
                                rows |-> <<LogRowText("1", "Day 1", "Squat", "200", "5")>>]}
    /\ clock = 1
    /\ button = ""
    /\ message = ""
    /\ edited = NoEdit
    /\ lastBulk = <<>>
    /\ logBefore = NoBulk
    /\ runs = 0
    /\ sess = NoSessions
    /\ shown = NoShown
    /\ report = NoReport

NextProgress ==
    \/ Progress
    \/ ClearLogs /\ UNCHANGED runs
    \/ Render /\ mode' = mode /\ UNCHANGED runs

SpecProgress == InitProgress /\ [][NextProgress]_vars

-----------------------------------------------------------------------------
(* The layout buttons over any custom days file *)

\* custom days files with rows of more than one key: a key of another day
\* next to a key whose Order cell is not a number, a key whose tag differs from
\* the tab name in case only, a row of another day written without the Rest
\* column, a row of another day whose Order cell is not a number
FrameStores ==
    { Absent,
      [exists |-> TRUE, rows |-> << StoreRow("2", "Day 1", "abc", "Row"),
                                    StoreRow("1", "Day 2", "1", "Curl") >>],
      [exists |-> TRUE, rows |-> << StoreRow("1", "DAY 1", "1", "Curl"),
                                    StoreRow("1", "Day 1", "1", "Row") >>],
      [exists |-> TRUE, rows |-> << StoreRowNoRest("1", "Day 2", "1", "Row") >>],
      [exists |-> TRUE, rows |-> << StoreRow("1", "Day 2", "abc", "Curl") >>] }

\* a start-up that finds one of these files, a log of one set, and an undo
\* buffer or none; the mode radio is switched between runs
InitFrame ==
    /\ dfW1 = load_excel_as_str(SheetW1Short)
    /\ dfW2 = load_excel_as_str(SheetW2Rest)
    /\ mode = "Standard"
    /\ custom_file \in FrameStores
    /\ log_file = [exists |-> TRUE,
                   rows |-> <<LogRowText("1", "Day 1", "Squat", "200", "5")>>]
    /\ undo_file \in {Absent, [exists |-> TRUE,
                                rows |-> <<LogRowText("1", "Day 1", "Squat", "200", "5")>>]}
    /\ clock = 1
    /\ button = ""
    /\ message = ""
    /\ edited = NoEdit
    /\ lastBulk = <<>>
    /\ logBefore = NoBulk
    /\ runs = 0
    /\ sess = NoSessions
    /\ shown = NoShown
    /\ report = NoReport

NextFrame ==
    \/ SaveLayout /\ UNCHANGED runs
    \/ SaveNewLayout /\ UNCHANGED runs
    \/ ResetLayout /\ UNCHANGED runs
    \/ Render /\ UNCHANGED runs

SpecFrame == InitFrame /\ [][NextFrame]_vars

-----------------------------------------------------------------------------
(* The V6.1 iteration (Hemsworth_V6_1_app.py): one library, no Week column, *)
(* and a custom days file that load_csv reads as text                       *)

\* the greatest number of rows of the library day
MaxRowsV61 == 10

\* plan_columns() of V6.1: the two prescription columns are spelt with the
\* multiplication sign, which app.py's REQUIRED_PLAN_COLS are not
plan_columns_V61 ==
    <<"DayTag", "Order", "Lift / Exercise", "Purpose / Role",
      "Region / Muscle Focus", "Standard Sets×Reps", "Hemsworth Sets×Reps", "Rest">>

\* the columns of user_logs.csv in V6.1 (Hemsworth_V6_1_app.py:112): there is
\* no Week column
log_columns_V61 ==
    <<"Date", "DayTag", "Lift / Exercise", "Weight (lbs)", "Reps", "Notes", "Mode">>

\* the library as load_library returns it, a frame with its columns and its
\* rows: MaxRowsV61 lifts of Day 1 and one lift of Day 2; the Purpose cell of
\* the first lift is blank
LibraryV61 ==
    [columns |-> Range(plan_columns_V61) \ {"Order"},
     rows |->
       [n \in 1 .. MaxRowsV61 + 1 |->
          [c \in Range(plan_columns_V61) \ {"Order"} |->
              CASE c = "DayTag" -> IF n <= MaxRowsV61 THEN "Day 1" ELSE "Day 2"
                [] c = "Lift / Exercise" -> "Lift " \o IntStr(n)
                [] c = "Rest" -> "60"
                [] c = "Purpose / Role" -> IF n = 1 THEN NaN ELSE ""
                [] OTHER -> ""]]]

\* a library sheet that holds its header line and no row
LibraryHeaderV61 ==
    [columns |-> Range(plan_columns_V61) \ {"Order"}, rows |-> <<>>]

\* a library sheet that names its day column "Day"
LibraryNoDayTagV61 ==
    [columns |-> {"Day", "Lift / Exercise", "Rest"},
     rows |-> << [c \in {"Day", "Lift / Exercise", "Rest"} |->
                    CASE c = "Day" -> "Day 1"
                      [] c = "Lift / Exercise" -> "Lift 1"
                      [] OTHER -> "60"] >>]

\* a library sheet that has the day column and no lift column
LibraryNoLiftV61 ==
    [columns |-> {"DayTag", "Rest"},
     rows |-> << [c \in {"DayTag", "Rest"} |->
                    IF c = "DayTag" THEN "Day 1" ELSE "60"] >>]

\* load_csv(path, cols): every cell is text, a column the file lacks is filled
\* with "", a column that is not asked for is dropped
load_csv_V61(file, cols) ==
    LET df == IF file.exists THEN file.rows ELSE <<>>
    IN  [i \in DOMAIN df |-> [c \in Range(cols) |-> Get(df[i], c, "")]]

\* save_csv of the rows of the other days, as they were loaded, followed by
\* the rows of the day: to_csv writes an integer Order as its numeral
save_csv_V61(updated, new_day) ==
    [exists |-> TRUE,
     rows |-> updated \o
              [i \in DOMAIN new_day |-> [new_day[i] EXCEPT !["Order"] = IntStr(@)]]]

\* the decimal digits of a number, as Python compares the characters of its
\* numeral
RECURSIVE DigitsOf(_)
DigitsOf(n) == IF n < 10 THEN <<n>> ELSE DigitsOf(n \div 10) \o <<n % 10>>

\* s < t for two strings, character by character
LexLess(s, t) ==
    \E k \in 1 .. Len(t) :
       /\ k <= Len(s) + 1
       /\ \A i \in 1 .. k - 1 : s[i] = t[i]
       /\ (k = Len(s) + 1 \/ s[k] < t[k])

\* the characters of an Order cell that is text, as numbers that compare as
\* the characters do: the digits of a numeral, nothing for the empty cell, and
\* one character after the digits for the other cells of the model, which start
\* with a letter
TextKey(c) ==
    IF c = "" THEN <<>>
    ELSE IF \E n \in Numerals : NumeralTable[n] = c
         THEN DigitsOf(CHOOSE n \in Numerals : NumeralTable[n] = c)
         ELSE <<10>>

\* the arrangements of the indices S in ascending order of their keys; rows of
\* equal key come in any order (quicksort)
RECURSIVE Arrangements(_, _)
Arrangements(keys, S) ==
    IF S = {} THEN { <<>> }
    ELSE UNION { { <<i>> \o rest : rest \in Arrangements(keys, S \ {i}) } :
                 i \in {m \in S : \A j \in S : ~LexLess(keys[j], keys[m])} }

\* df.sort_values("Order").reset_index(drop=True) for a frame whose Order is
\* text: the frames the call can return
sort_values_text_V61(df) ==
    { [k \in DOMAIN df |-> df[a[k]]] :
        a \in Arrangements([i \in DOMAIN df |-> TextKey(df[i]["Order"])], DOMAIN df) }

\* the same call on a frame whose Order values are integers
sort_values_int_V61(df) ==
    { [k \in DOMAIN df |-> df[a[k]]] :
        a \in Arrangements([i \in DOMAIN df |-> <<df[i]["Order"]>>], DOMAIN df) }

\* _plan_type_safety on a frame whose cells are text: Order becomes an
\* integer; the rows stay where they are
plan_type_safety_V61(plan) ==
    [i \in DOMAIN plan |-> [plan[i] EXCEPT !["Order"] = OrderOfCell(@)]]

\* normalize_order of V6.1, on integer Order values: the frames it can return
normalize_order_V61(df) ==
    { [i \in DOMAIN df |-> [sorted[i] EXCEPT !["Order"] = i]] :
        sorted \in sort_values_int_V61(df) }

\* get_day_plan of V6.1: the frames it can return
get_day_plan_V61(day, df_master, df_custom) ==
    LET base == SelectSeq(df_master.rows,
                          LAMBDA r : Lower(Strip(PyStr(r["DayTag"]))) = Lower(day))
        custom == SelectSeq(df_custom, LAMBDA r : r["DayTag"] = day)
    IN  IF "DayTag" \notin df_master.columns THEN { <<>> }
        ELSE IF custom # <<>>
        THEN { plan_type_safety_V61(sorted) : sorted \in sort_values_text_V61(custom) }
        ELSE { plan_type_safety_V61(
                 [order \in DOMAIN base |->
                    [c \in Range(plan_columns_V61) |->
                        CASE c = "DayTag" -> day
                          [] c = "Order" -> IntStr(order)   \* after astype(str)
                          [] OTHER -> PyStr(Get(base[order], c, ""))]]) }

\* the rows the editor collects when row 'removed' has action Remove and every
\* other row has Keep with the Order the number input shows (0: no row removed)
edited_V61(plan, removed) ==
    IF removed = 0 THEN plan
    ELSE SubSeq(plan, 1, removed - 1) \o SubSeq(plan, removed + 1, Len(plan))

\* a custom days file that app.py wrote: it has a Week column, and rows of
\* Day 1 for both weeks with the same Order; its two prescription columns
\* carry the names app.py gives them, which are not the names V6.1 asks for
StoreOfAppV61 ==
    [exists |-> TRUE,
     rows |-> << [c \in Range(REQUIRED_PLAN_COLS) |->
                    CASE c = "Week" -> "1"
                      [] c = "DayTag" -> "Day 1"
                      [] c = "Order" -> "1"
                      [] c = "Lift / Exercise" -> "Lift 1"
                      [] c = "Standard SetsxReps" -> "3x10"
                      [] OTHER -> ""],
                 [c \in Range(REQUIRED_PLAN_COLS) |->
                    CASE c = "Week" -> "2"
                      [] c = "DayTag" -> "Day 1"
                      [] c = "Order" -> "1"
                      [] c = "Lift / Exercise" -> "Lift 2"
                      [] OTHER -> ""] >>]

\* a custom days file whose one row of Day 1 has the Order cell "0"
StoreOrderZeroV61 ==
    [exists |-> TRUE,
     rows |-> << [c \in Range(plan_columns_V61) |->
                    CASE c = "DayTag" -> "Day 1"
                      [] c = "Order" -> "0"
                      [] c = "Lift / Exercise" -> "Lift 1"
                      [] OTHER -> ""] >>]

\* the exception that ends a run of V6.1 in the editor of a tab
StreamlitAPIException == "StreamlitAPIException"

\* the exception that ends a run of V6.1 in the editor of a tab, "" when there
\* is none (Hemsworth_V6_1_app.py:166-182): for a plan that has rows the editor
\* first reads the lift column of the library (line 169), a KeyError when the
\* library has none, and then draws, for every row,
\* st.number_input("Order", 1, 99, int(row["Order"])), which refuses a value
\* outside 1..99; get_day_plan of V6.1 does not renumber the stored rows
EditorExceptionV61(plan) ==
    IF plan = <<>> THEN ""
    ELSE IF "Lift / Exercise" \notin dfW1.columns THEN "KeyError: 'Lift / Exercise'"
    ELSE IF \E i \in DOMAIN plan : plan[i]["Order"] \notin 1 .. 99
         THEN StreamlitAPIException
    ELSE ""

\* the editor of a tab raises, which ends the run
EditorRaisesV61(plan) == EditorExceptionV61(plan) # ""

\* the run comes to the tab of 'day': the editor of no earlier tab raised
ReachesTabV61(day, custom_days) ==
    \A i \in 1 .. TabIndex(day) - 1 :
       \A plan \in get_day_plan_V61(TabNames[i], dfW1, custom_days) :
          ~EditorRaisesV61(plan)

\* the buttons of the tab of 'day' and its second resolve are reached: the run
\* came to the tab and its editor, drawn from the plan of the first resolve
\* (line 163), did not raise
DrawnV61(day, plan, custom_days) ==
    ReachesTabV61(day, custom_days) /\ ~EditorRaisesV61(plan)

\* what a run of V6.1 leaves alone
FrameV61 == UNCHANGED <<dfW1, dfW2, undo_file, lastBulk, logBefore, sess, report>>

\* the dict of one logged set of V6.1 (Hemsworth_V6_1_app.py:221-222, 228-230)
log_row_V61(t, day, row, in, m) ==
    [c \in Range(log_columns_V61) |->
        CASE c = "Date" -> DateStr(t)
          [] c = "DayTag" -> day
          [] c = "Lift / Exercise" -> row["Lift / Exercise"]
          [] c = "Weight (lbs)" -> in.w
          [] c = "Reps" -> in.r
          [] c = "Notes" -> in.n
          [] OTHER -> m]

\* 'Save <day> Layout' of V6.1 (Hemsworth_V6_1_app.py:196-199), and the plan the
\* run shows afterwards (line 204); the button is drawn after the editor rows
\* of the plan of the first resolve, and only for a plan that has rows
SaveLayoutV61 ==
    \E day \in Range(TabDays) :
    \E custom_days \in {load_csv_V61(custom_file, plan_columns_V61)} :
    \E plan \in get_day_plan_V61(day, dfW1, custom_days) :
    \E removed \in 0 .. Len(plan) :
    \E new_day \in normalize_order_V61(edited_V61(plan, removed)) :
      /\ DrawnV61(day, plan, custom_days)
      /\ plan # <<>>
      /\ custom_file' =
           save_csv_V61(SelectSeq(custom_days, LAMBDA r : r["DayTag"] # day), new_day)
      /\ \E second \in get_day_plan_V61(day, dfW1, load_csv_V61(custom_file', plan_columns_V61)) :
           shown' = [week |-> "", day |-> day, first |-> plan, second |-> second]
      /\ edited' = [NoEdit EXCEPT !.rows = edited_V61(plan, removed)]
      /\ button' = "save_layout"
      /\ message' = "Saved layout."
      /\ UNCHANGED <<mode, log_file, clock>>
      /\ FrameV61

\* 'Reset <day>' of V6.1 (Hemsworth_V6_1_app.py:200-202), drawn after the
\* editor rows as the save button is
ResetV61 ==
    \E day \in Range(TabDays) :
    \E custom_days \in {load_csv_V61(custom_file, plan_columns_V61)} :
    \E plan \in get_day_plan_V61(day, dfW1, custom_days) :
      /\ DrawnV61(day, plan, custom_days)
      /\ plan # <<>>
      /\ custom_file' = save_csv_V61(SelectSeq(custom_days, LAMBDA r : r["DayTag"] # day),
                                     <<>>)
      /\ \E second \in get_day_plan_V61(day, dfW1, load_csv_V61(custom_file', plan_columns_V61)) :
           shown' = [week |-> "", day |-> day, first |-> plan, second |-> second]
      /\ edited' = NoEdit
      /\ button' = "reset_layout"
      /\ message' = "Reset to default."
      /\ UNCHANGED <<mode, log_file, clock>>
      /\ FrameV61

\* a run of V6.1 without a button: the editor of the tab is drawn from the plan
\* of the first resolve; when it raises the run ends there and no plan is
\* shown, otherwise the plan is resolved again (line 203) and shown
RenderV61 ==
    \E day \in Range(TabDays) :
    \E custom_days \in {load_csv_V61(custom_file, plan_columns_V61)} :
    \E plan \in get_day_plan_V61(day, dfW1, custom_days) :
    \E second \in get_day_plan_V61(day, dfW1, load_csv_V61(custom_file, plan_columns_V61)) :
      /\ ReachesTabV61(day, custom_days)
      /\ shown' = [week |-> "", day |-> day, first |-> plan,
                   second |-> IF EditorRaisesV61(plan) THEN <<>> ELSE second]
      /\ edited' = NoEdit
      /\ button' = ""
      /\ message' = IF EditorRaisesV61(plan) THEN EditorExceptionV61(plan)
                    ELSE IF second = <<>> THEN "No lifts configured."
                    ELSE "Rendered"
      /\ mode' \in Modes
      /\ UNCHANGED <<custom_file, log_file, clock>>
      /\ FrameV61

\* the per-row 'Save' of a logged set in V6.1 (Hemsworth_V6_1_app.py:219-225);
\* the rows of the tab are those of the plan resolved at line 203, which the
\* run reaches when the editor above it did not raise
SaveSetV61 ==
    \E day \in Range(TabDays) :
    \E user_log \in {load_csv_V61(log_file, log_columns_V61)} :
    \E first \in get_day_plan_V61(day, dfW1, load_csv_V61(custom_file, plan_columns_V61)) :
    \E plan \in get_day_plan_V61(day, dfW1, load_csv_V61(custom_file, plan_columns_V61)) :
      /\ DrawnV61(day, first, load_csv_V61(custom_file, plan_columns_V61))
      /\ \E i \in DOMAIN plan : \E in \in SetChoices :
           log_file' = save_csv_log(user_log,
                                    <<log_row_V61(clock, day, plan[i], in, mode)>>)
      /\ shown' = [week |-> "", day |-> day, first |-> first, second |-> plan]
      /\ edited' = NoEdit
      /\ button' = "s"
      /\ message' = "Saved."
      /\ UNCHANGED <<custom_file, mode, clock>>
      /\ FrameV61

\* 'Save ALL <day>' of V6.1 (Hemsworth_V6_1_app.py:226-233): one row per plan
\* row, each with the minute it was built in; reached as 'Save' is
SaveAllV61 ==
    \E day \in Range(TabDays) :
    \E user_log \in {load_csv_V61(log_file, log_columns_V61)} :
    \E first \in get_day_plan_V61(day, dfW1, load_csv_V61(custom_file, plan_columns_V61)) :
    \E plan \in get_day_plan_V61(day, dfW1, load_csv_V61(custom_file, plan_columns_V61)) :
      /\ DrawnV61(day, first, load_csv_V61(custom_file, plan_columns_V61))
      /\ plan # <<>>
      /\ \E ins \in [DOMAIN plan -> SetChoices] :
         \E ts \in Stamps(Len(plan), clock) :
           /\ log_file' = save_csv_log(user_log,
                  [i \in DOMAIN plan |-> log_row_V61(ts[i], day, plan[i], ins[i], mode)])
           /\ clock' = ts[Len(plan)]
      /\ shown' = [week |-> "", day |-> day, first |-> first, second |-> plan]
      /\ edited' = NoEdit
      /\ button' = "bulk_save"
      /\ message' = "Saved all sets."
      /\ UNCHANGED <<custom_file, mode>>
      /\ FrameV61

InitV61 ==
    /\ dfW1 \in {LibraryV61, LibraryHeaderV61, LibraryNoDayTagV61, LibraryNoLiftV61}
    /\ dfW2 = <<>>
    /\ mode = "Standard"
    /\ custom_file \in {Absent, StoreOfAppV61, StoreOrderZeroV61}
    /\ log_file = Absent
    /\ undo_file = Absent
    /\ clock = 1
    /\ button = ""
    /\ message = ""
    /\ edited = NoEdit
    /\ lastBulk = <<>>
    /\ logBefore = NoBulk
    /\ runs = 0
    /\ sess = NoSessions
    /\ shown = NoShown
    /\ report = NoReport

\* a session of V6.1 of at most MaxRuns runs, any button in each
NextV61 ==
    \/ CountRun /\ SaveLayoutV61
    \/ CountRun /\ ResetV61
    \/ CountRun /\ SaveSetV61
    \/ CountRun /\ SaveAllV61
    \/ CountRun /\ RenderV61

SpecV61 == InitV61 /\ [][NextV61]_vars

-----------------------------------------------------------------------------
(* Properties of plan resolution and of the custom days store *)

\* the rows the custom days file holds under a (week, day) key, as text
FileRowsOf(file, week, day) ==
    SelectSeq(file.rows, LAMBDA r : r["Week"] = week /\ r["DayTag"] = day)

\* two plan rows agree on every column but Order
SameButOrder(a, b) ==
    \A c \in Range(REQUIRED_PLAN_COLS) \ {"Order"} : a[c] = b[c]

\* C1: for every key with stored rows and whatever the library holds, every
\* plan get_day_plan can return is the stored rows of the key, arranged by
\* ascending saved Order and numbered 1..N; no library row is added
C1_OverrideIsTotal ==
    \A week \in Weeks : \A day \in AskedDays :
      LET st == FileRowsOf(custom_file, week, day)
          n == Len(st)
      IN  n > 0 =>
            \A lib \in Libraries :
              LET plans == get_day_plan(day, week, lib, load_custom_days(custom_file))
              IN  /\ plans # {}
                  /\ \A p \in plans :
                       /\ Len(p) = n
                       /\ \A i \in 1 .. n : p[i]["Order"] = i
                       /\ \E q \in Perms(n) :
                            /\ \A i \in 1 .. n : SameButOrder(p[i], st[q[i]])
                            /\ \A i, j \in 1 .. n :
                                 i < j => OrderOfCell(st[q[i]]["Order"])
                                            <= OrderOfCell(st[q[j]]["Order"])

\* a key holds one stored row, a lift other than the first lift of its library
\* plan, while the library holds two rows for the day
C1_Witness ==
    /\ Len(FileRowsOf(custom_file, "1", "Day 1")) = 1
    /\ FileRowsOf(custom_file, "1", "Day 1")[1]["Lift / Exercise"] = "Bench"
    /\ Len(BaseRows(dfW1, "Day 1")) = 2

\* the library rows whose tag, blanks trimmed, equals the day whatever the case
TagMatches(lib, day) ==
    {i \in DOMAIN lib : Lower(Strip(PyStr(lib[i]["DayTag"]))) = Lower(day)}

\* the library rows whose tag as written equals the day whatever the case
TagEqualsIgnoringCase(lib, day) ==
    {i \in DOMAIN lib : Lower(PyStr(lib[i]["DayTag"])) = Lower(day)}

\* a plan is the rows `hits` of the library in source order, numbered 1..N
IsLibraryPlan(p, lib, hits, week, day) ==
    /\ Len(p) = Cardinality(hits)
    /\ \A j \in DOMAIN p :
         \E i \in hits :
           /\ Cardinality({h \in hits : h <= i}) = j
           /\ p[j]["Order"] = j
           /\ p[j]["Week"] = week
           /\ p[j]["DayTag"] = day
           /\ \A c \in Range(LIB_COLS) \ {"DayTag", "Rest"} : p[j][c] = lib[i][c]
           /\ p[j]["Rest"] = PyStr(lib[i]["Rest"])

\* a run that presses no layout button leaves the custom days file as it is
ResolveWritesNothing ==
    button' \notin {"save_layout", "save_new", "reset_layout", "clear_custom"}
        => custom_file' = custom_file

\* C2 as stated: with no stored row for the key, the plan is one entry per
\* library row whose tag equals the day case-insensitively, in source order,
\* numbered 1..N
C2_AsStated ==
    \A week \in Weeks : \A day \in AskedDays : \A lib \in Libraries :
      FileRowsOf(custom_file, week, day) = <<>> =>
        \A p \in get_day_plan(day, week, lib, load_custom_days(custom_file)) :
          IsLibraryPlan(p, lib, TagEqualsIgnoringCase(lib, day), week, day)

\* C2 (amended): with no stored row for the key, get_day_plan returns one plan,
\* one entry per library row whose tag, surrounding blanks trimmed, equals the
\* day case-insensitively, in source order, numbered 1..N; and a run that only
\* resolves writes nothing to the custom days file
C2_CanonicalPlan ==
    /\ [](\A week \in Weeks : \A day \in AskedDays : \A lib \in Libraries :
            FileRowsOf(custom_file, week, day) = <<>> =>
              LET plans == get_day_plan(day, week, lib, load_custom_days(custom_file))
              IN  /\ plans # {}
                  /\ \A p \in plans :
                       IsLibraryPlan(p, lib, TagMatches(lib, day), week, day))
    /\ [][ResolveWritesNothing]_vars

\* a run without a button resolved the plan of a key that has no stored row,
\* from a library with two rows of the day, while the other week has stored rows
C2_Witness ==
    /\ button = ""
    /\ message # ""
    /\ FileRowsOf(custom_file, "1", "Day 1") = <<>>
    /\ FileRowsOf(custom_file, "2", "Day 1") # <<>>
    /\ Cardinality(TagMatches(dfW1, "Day 1")) = 2

\* the Order cells of the stored rows of every key are exactly 1..N
StoredOrdersContiguous ==
    \A week \in Weeks : \A day \in AskedDays :
      LET st == FileRowsOf(custom_file, week, day)
      IN  /\ {st[i]["Order"] : i \in DOMAIN st} = {IntStr(n) : n \in 1 .. Len(st)}
          /\ \A i \in DOMAIN st : st[i]["Order"] = IntStr(i)

\* the stored rows of a key change only in a layout save of that key, which
\* leaves as many rows as were kept or replaced, or in a reset or clear, which
\* leaves none
StoredCountFollowsLastSave ==
    \A week \in Weeks : \A day \in AskedDays :
      FileRowsOf(custom_file', week, day) # FileRowsOf(custom_file, week, day) =>
        \/ /\ button' \in {"save_layout", "save_new"}
           /\ edited'.week = week /\ edited'.day = day
           /\ Len(FileRowsOf(custom_file', week, day)) = Len(edited'.rows)
        \/ /\ button' \in {"reset_layout", "clear_custom"}
           /\ FileRowsOf(custom_file', week, day) = <<>>

\* C3: after any sequence of layout saves and resets the stored rows of every
\* key carry the Order values 1..N without gap or duplicate, N being the number
\* of rows kept or replaced in the last save of the key
C3_Renumbering ==
    /\ []StoredOrdersContiguous
    /\ []((button \in {"save_layout", "save_new"}) =>
            Len(FileRowsOf(custom_file, edited.week, edited.day)) = Len(edited.rows))
    /\ [][StoredCountFollowsLastSave]_vars

\* an editor save kept one row of a plan and asked for Order 2; the key holds
\* the one row
C3_Witness ==
    /\ button = "save_layout"
    /\ Len(edited.rows) = 1
    /\ edited.rows[1]["Order"] = 2
    /\ Len(FileRowsOf(custom_file, edited.week, edited.day)) = 1

\* C5: after an editor save the rows the store holds for the key are exactly
\* the edited list (the kept and replaced rows), renumbered 1..N, as written to
\* the file; no other row is stored under the key
C5_SaveReplacesKey ==
    (button = "save_layout") =>
      LET st == FileRowsOf(custom_file, edited.week, edited.day)
          n == Len(edited.rows)
      IN  /\ Len(st) = n
          /\ \E q \in Perms(n) :
               \A i \in 1 .. n :
                 st[i] = PlanRowCsv([edited.rows[q[i]] EXCEPT !["Order"] = i])

\* an editor save of Week 1 Day 1 left one row, Bench, asked at Order 2
C5_Witness ==
    /\ button = "save_layout"
    /\ edited.week = "1"
    /\ Len(edited.rows) = 1
    /\ edited.rows[1]["Lift / Exercise"] = "Bench"
    /\ edited.rows[1]["Order"] = 2
    /\ FileRowsOf(custom_file, "1", "Day 1")[1]["Order"] = "1"

\* a key without stored rows resolves as it does against an empty store
ResolvesAsNeverOverridden(week, day) ==
    \A lib \in Libraries :
      get_day_plan(day, week, lib, load_custom_days(custom_file))
        = get_day_plan(day, week, lib, <<>>)

\* a key without stored rows gets rows only in a layout save of that key
StaysResetUntilSave ==
    \A week \in Weeks : \A day \in AskedDays :
      (FileRowsOf(custom_file, week, day) = <<>>
         /\ FileRowsOf(custom_file', week, day) # <<>>) =>
        /\ button' \in {"save_layout", "save_new"}
        /\ edited'.week = week /\ edited'.day = day

\* C6: a reset leaves no stored row under its key, and a key without stored
\* rows resolves to the library plan, as if it had never been overridden, until
\* a layout save of that key
C6_ResetRevertsToCanonical ==
    /\ []((button = "reset_layout") =>
            FileRowsOf(custom_file, edited.week, edited.day) = <<>>)
    /\ [](\A week \in Weeks : \A day \in AskedDays :
            FileRowsOf(custom_file, week, day) = <<>> =>
              ResolvesAsNeverOverridden(week, day))
    /\ [][StaysResetUntilSave]_vars

\* Week 2 Day 1 was reset: its library plan is empty, so the reset button was
\* there for stored rows; the other week still holds stored rows
C6_Witness ==
    /\ button = "reset_layout"
    /\ edited.week = "2"
    /\ FileRowsOf(custom_file, "2", "Day 1") = <<>>
    /\ FileRowsOf(custom_file, "1", "Day 1") # <<>>
    /\ get_day_plan("Day 1", "2", dfW2, load_custom_days(custom_file)) = {<<>>}

\* the arrangement of rows by ascending Order in which rows of equal Order
\* keep the position they had
StableByOrder(rows) ==
    LET n == Len(rows)
        q == CHOOSE f \in Perms(n) :
               \A i, j \in 1 .. n :
                 i < j => \/ rows[f[i]]["Order"] < rows[f[j]]["Order"]
                          \/ /\ rows[f[i]]["Order"] = rows[f[j]]["Order"]
                             /\ f[i] < f[j]
    IN  [i \in 1 .. n |-> rows[q[i]]]

\* C10: after an editor save the key holds the edited rows by ascending
\* requested Order, rows of equal requested Order in the position they had in
\* the plan, renumbered 1..N
C10_StableTieBreak ==
    (button = "save_layout") =>
      LET st == FileRowsOf(custom_file, edited.week, edited.day)
          want == StableByOrder(edited.rows)
      IN  st = [i \in DOMAIN want |-> PlanRowCsv([want[i] EXCEPT !["Order"] = i])]

-----------------------------------------------------------------------------
(* Properties of the log and of the undo buffer *)

\* the step is a run of the script that handles button b: the clock stands,
\* or the run is a bulk save during which the minute turned
RunOf(b) == button' = b /\ (clock' = clock \/ log_file' # log_file)

\* no row of the log a Save ALL run loaded equals a row that run appended
NoRowOfBulkBefore ==
    \A i \in DOMAIN logBefore.rows : \A j \in DOMAIN lastBulk :
      logBefore.rows[i] # lastBulk[j]

\* C4: when Undo Last Bulk Save is the run after a Save ALL, and the log held
\* no row equal to a row of the bulk, the log file holds the rows it held before
\* the Save ALL, in the same order, and the undo buffer is gone
C4_BulkUndoRoundTrip ==
    (button = "undo_bulk" /\ logBefore.set /\ message = "Last bulk save undone."
       /\ NoRowOfBulkBefore) =>
      /\ log_file.rows = logBefore.rows
      /\ ~undo_file.exists

\* a Save ALL of two rows onto a log of one row was undone in the next run
C4_Witness ==
    /\ button = "undo_bulk"
    /\ message = "Last bulk save undone."
    /\ logBefore.set
    /\ Len(logBefore.rows) = 1
    /\ Len(lastBulk) = 2
    /\ NoRowOfBulkBefore
    /\ log_file.rows = logBefore.rows

\* a Save ALL run appends its rows to the log and leaves exactly them in the
\* undo buffer, whatever the buffer held
BulkOverwritesBuffer ==
    RunOf("bulk_save") =>
      /\ log_file'.rows = load_logs(log_file) \o lastBulk'
      /\ lastBulk' # <<>>
      /\ undo_file'.exists
      /\ undo_file'.rows = lastBulk'

\* an undo removes the log rows equal to a row of the most recent bulk, no
\* other row, and empties the buffer; an undo without buffer removes nothing
UndoRemovesLastBulkOnly ==
    RunOf("undo_bulk") =>
      IF undo_file.exists /\ undo_file.rows # <<>>
      THEN /\ log_file'.rows =
                SelectSeq(load_logs(log_file),
                          LAMBDA r : \A j \in DOMAIN lastBulk : lastBulk[j] # r)
           /\ ~undo_file'.exists
      ELSE log_file' = log_file

\* C7: the undo buffer is absent, empty, or holds exactly the rows of the most
\* recent Save ALL; a Save ALL overwrites it; an undo removes only rows equal to
\* rows of that last bulk and a second undo changes nothing
C7_SingleLevelUndo ==
    /\ []((undo_file.exists /\ undo_file.rows # <<>>) => undo_file.rows = lastBulk)
    /\ [][BulkOverwritesBuffer]_vars
    /\ [][UndoRemovesLastBulkOnly]_vars
    /\ []((button = "undo_bulk" /\ message = "Last bulk save undone.")
            => ~undo_file.exists)

\* a Save ALL overwrote the unconsumed buffer of an earlier Save ALL, then an
\* undo ran: the rows of the earlier bulk are still in the log, none of them is
\* a row of the last bulk, and the buffer is gone
C7_Witness ==
    /\ button = "undo_bulk"
    /\ message = "Last bulk save undone."
    /\ logBefore.set
    /\ logBefore.buffer # <<>>
    /\ \A i \in DOMAIN logBefore.buffer :
         /\ \E j \in DOMAIN log_file.rows : log_file.rows[j] = logBefore.buffer[i]
         /\ \A j \in DOMAIN lastBulk : lastBulk[j] # logBefore.buffer[i]
    /\ lastBulk # <<>>
    /\ ~undo_file.exists

\* C8: an undo run that finds the buffer file absent, or present without rows,
\* leaves the log and the custom days file as they are and tells the user that
\* there is no undo data
C8_EmptyUndoReports ==
    [][(RunOf("undo_bulk") /\ (~undo_file.exists \/ undo_file.rows = <<>>)) =>
         /\ log_file' = log_file
         /\ custom_file' = custom_file
         /\ message' = "No undo data found."]_vars

\* the rows the log file held are the first rows of what it holds after the step
LogKept ==
    /\ Len(log_file'.rows) >= Len(log_file.rows)
    /\ SubSeq(log_file'.rows, 1, Len(log_file.rows)) = log_file.rows

\* C9: every run other than Clear All Logs and Undo Last Bulk Save leaves the
\* rows of the log file unmodified, in place and in order; rows are only added
\* after them
C9_LogAppendOnly ==
    [][button' \notin {"clear_logs", "undo_bulk"} => LogKept]_vars

\* a layout was saved in a session whose log holds two rows
C9_Witness ==
    /\ button = "save_layout"
    /\ Len(log_file.rows) = 2
    /\ custom_file.rows # <<>>

-----------------------------------------------------------------------------
(* Properties of sessions that run side by side *)

\* session a wrote a table of the kind, then session b wrote one, and both had
\* loaded the same table, to which each added rows the other did not
WroteAfterSameLoad(a, b, kind) ==
    /\ a # b
    /\ sess[a].wrote = kind /\ sess[b].wrote = kind
    /\ sess[a].at < sess[b].at
    /\ IF kind = "log" THEN sess[a].user_log = sess[b].user_log
                       ELSE sess[a].custom_days = sess[b].custom_days
    /\ sess[a].added # <<>> /\ sess[b].added # <<>>
    /\ \A i \in DOMAIN sess[a].added :
         /\ \A j \in DOMAIN sess[b].added : sess[b].added[j] # sess[a].added[i]
         /\ LET had == IF kind = "log" THEN sess[a].user_log
                       ELSE save_csv_plan(sess[a].custom_days).rows
            IN  \A j \in DOMAIN had : had[j] # sess[a].added[i]

\* C11: when two sessions load the same log (or custom days), each adds rows
\* and writes its whole table, the file holds the table of the session that
\* wrote second, and no row the first writer added
C11_LastWriterWins ==
    \A a, b \in Sessions :
      /\ WroteAfterSameLoad(a, b, "log") =>
           /\ log_file.rows = sess[b].table
           /\ \A i \in DOMAIN sess[a].added :
                \A j \in DOMAIN log_file.rows : log_file.rows[j] # sess[a].added[i]
      /\ WroteAfterSameLoad(a, b, "store") =>
           /\ custom_file.rows = sess[b].table
           /\ \A i \in DOMAIN sess[a].added :
                \A j \in DOMAIN custom_file.rows :
                  custom_file.rows[j] # sess[a].added[i]

\* both sessions loaded the empty log; the first saved a set, then the second
\* saved another; the log holds one row, the set of the second
C11_Witness ==
    /\ WroteAfterSameLoad(1, 2, "log")
    /\ sess[1].user_log = <<>>
    /\ Len(log_file.rows) = 1
    /\ log_file.rows[1] = sess[2].added[1]
    /\ log_file.rows[1] # sess[1].added[1]

-----------------------------------------------------------------------------
(* Properties of resolving against any library and any custom days file *)

\* a frame with the fixed plan columns in every row (possibly no row)
WellShaped(p) ==
    \A i \in DOMAIN p : DOMAIN p[i] = Range(REQUIRED_PLAN_COLS)

\* C12: whatever the library (missing, without rows, of unrelated columns,
\* without the DayTag column) and whatever the custom days file (an Order cell
\* that is not a number included), both resolve calls of a run return a frame
\* with the fixed plan columns and none raises
C12_ResolveNeverFails ==
    (shown.week # "") =>
      /\ Len(shown.tabs) = Len(TabNames)
      /\ \A i \in DOMAIN shown.tabs :
           /\ shown.tabs[i].first # KeyError /\ shown.tabs[i].second # KeyError
           /\ WellShaped(shown.tabs[i].first) /\ WellShaped(shown.tabs[i].second)

\* the rows stored for the week under a tag that differs from the day in case
\* only
StoredUnderOtherCase(week, day) ==
    SelectSeq(custom_file.rows,
              LAMBDA r : r["Week"] = week /\ r["DayTag"] # day
                           /\ Lower(r["DayTag"]) = Lower(day))

\* C14: the library rows of a day are found whatever the case and the
\* surrounding blanks of their tag, the stored rows only under the exact week
\* and day; so when rows are stored under a tag that differs from the asked
\* day in case only, and none under the day itself, get_day_plan returns the
\* library plan of the day and none of those rows
C14_AsymmetricDayMatch ==
    \A week \in Weeks : \A day \in AskedDays : \A lib \in Libraries :
      (StoredUnderOtherCase(week, day) # <<>>
         /\ FileRowsOf(custom_file, week, day) = <<>>) =>
        LET plans == get_day_plan(day, week, lib, load_custom_days(custom_file))
        IN  /\ plans # {}
            /\ \A p \in plans :
                 IsLibraryPlan(p, lib, TagMatches(lib, day), week, day)

\* rows are stored for Week 1 under "DAY 1"; a run resolved Week 1 "Day 1" to
\* the two library rows whose tags are " day 1" and "DAY 1 "
C14_Witness ==
    /\ shown.week = "1"
    /\ shown.tabs # <<>>
    /\ shown.tabs[1].day = "Day 1"
    /\ StoredUnderOtherCase("1", "Day 1") # <<>>
    /\ Len(shown.tabs[1].first) = 2
    /\ shown.tabs[1].first[1]["Lift / Exercise"] = "Squat"
    /\ shown.tabs[1].first[2]["Lift / Exercise"] = "Bench"
    /\ Cardinality(TagMatches(dfW1, "Day 1")) = 2

\* the frames a run of the week loads and hands to the first resolve
LoadedFrames(week) ==
    Frames(dfW_active(week, dfW1, dfW2), load_custom_days(custom_file))

-----------------------------------------------------------------------------
(* Properties of the layout editor *)

\* the first row of a library that names the lift
FirstRowOf(lib, lift) ==
    lib[CHOOSE i \in DOMAIN lib :
          /\ lib[i]["Lift / Exercise"] = lift
          /\ \A j \in 1 .. i - 1 : lib[j]["Lift / Exercise"] # lift]

\* the canonical value of a column for a lift: from the first row of the Week 1
\* library that names it, else of the Week 2 library, else blank
CanonicalMeta(lift, c) ==
    IF \E i \in DOMAIN dfW1 : dfW1[i]["Lift / Exercise"] = lift
    THEN FirstRowOf(dfW1, lift)[c]
    ELSE IF \E i \in DOMAIN dfW2 : dfW2[i]["Lift / Exercise"] = lift
         THEN FirstRowOf(dfW2, lift)[c]
         ELSE ""

\* the prescription column of the mode that is not active
other_sets_col(m) == IF m = "Standard" THEN "Hemsworth SetsxReps" ELSE "Standard SetsxReps"

\* C13: for every row of every plan the editor can show and every Replace the
\* user can enter, the edited row names the new lift and takes role, region,
\* rest and both prescriptions from the canonical row of that lift, nothing
\* from the row it replaces; a typed prescription replaces the prescription of
\* the active mode only
C13_ReplaceRepullsFresh ==
    \A k \in Keys :
    \A plan \in get_day_plan(k[2], k[1], dfW_active(k[1], dfW1, dfW2),
                             load_custom_days(custom_file)) :
    \A i \in DOMAIN plan :
    \A a \in {x \in EditChoices(master_lifts_all) : x.action = "Replace"} :
    \A m \in Modes :
      LET e == EditedRow(plan[i], a, k[1], k[2], m, dfW1, dfW2)
          L == a.replace_with
      IN  /\ e["Lift / Exercise"] = L
          /\ e["Week"] = k[1] /\ e["DayTag"] = k[2] /\ e["Order"] = a.new_order
          /\ \A c \in {"Purpose / Role", "Region / Muscle Focus", "Rest"} :
               e[c] = CanonicalMeta(L, c)
          /\ e[sets_col(m)] =
               IF a.new_sets # "" THEN a.new_sets ELSE CanonicalMeta(L, sets_col(m))
          /\ e[other_sets_col(m)] = CanonicalMeta(L, other_sets_col(m))

\* in Standard mode a layout was saved with a row replaced by Bench and the
\* prescription 5x5 typed: the row carries the role, region and rest of the
\* first Bench row of the library (a Day 2 row), 5x5 as the Standard
\* prescription and the library's High Volume prescription
C13_Witness ==
    /\ button = "save_layout"
    /\ mode = "Standard"
    /\ edited.week = "1"
    /\ \E i \in DOMAIN edited.rows :
         /\ edited.rows[i]["Lift / Exercise"] = "Bench"
         /\ edited.rows[i]["Purpose / Role"] = "Volume"
         /\ edited.rows[i]["Rest"] = "60"
         /\ edited.rows[i]["Standard SetsxReps"] = "5x5"
         /\ edited.rows[i]["Hemsworth SetsxReps"] = "6x8"

\* C20: after an editor save in which every row was removed the key holds no
\* stored row, and the key resolves to the library plan, as after a reset
C20_AllRemovedReverts ==
    (button = "save_layout" /\ edited.rows = <<>>) =>
      /\ FileRowsOf(custom_file, edited.week, edited.day) = <<>>
      /\ get_day_plan(edited.day, edited.week, dfW_active(edited.week, dfW1, dfW2),
                      load_custom_days(custom_file))
           = get_day_plan(edited.day, edited.week,
                          dfW_active(edited.week, dfW1, dfW2), <<>>)

\* every row of Week 2 Day 1 was removed and saved: the day had stored rows
\* (its library plan is empty, the editor was there for stored rows), now it has
\* none, while Week 1 Day 1 keeps its stored rows
C20_Witness ==
    /\ button = "save_layout"
    /\ edited.rows = <<>>
    /\ edited.week = "2"
    /\ FileRowsOf(custom_file, "2", "Day 1") = <<>>
    /\ FileRowsOf(custom_file, "1", "Day 1") # <<>>

-----------------------------------------------------------------------------
(* Properties of the Progress tab *)

\* the text of a cell is the numeral of a number
IsNumeral(c) == \E n \in 0 .. 210 : IntStr(n) = c

\* the rows of the rendered log that the rendered filters let through
PassesFilters(i) ==
    /\ (report.flt.wk # "All" => report.loaded[i]["Week"] = report.flt.wk)
    /\ (report.flt.d # "All" => report.loaded[i]["DayTag"] = report.flt.d)
    /\ (report.flt.l # "All" => report.loaded[i]["Lift / Exercise"] = report.flt.l)

RowsOfLift(lift) ==
    {i \in DOMAIN report.loaded :
        PassesFilters(i) /\ report.loaded[i]["Lift / Exercise"] = lift}

LiftsOfPool == {r["Lift / Exercise"] : r \in LogRowPool}

\* C16: in a rendered Progress tab every row of the log has a volume, which is
\* the product of its weight and its reps when both cells are numbers and 0
\* when one of them is not a number
C16_VolumeIsProduct ==
    report.shown =>
      /\ DOMAIN report.log = DOMAIN report.loaded
      /\ \A i \in DOMAIN report.loaded :
           LET w == report.loaded[i]["Weight (lbs)"]
               r == report.loaded[i]["Reps"]
           IN  /\ (IsNumeral(w) /\ IsNumeral(r)) =>
                    \E a, b \in 0 .. 210 :
                       /\ IntStr(a) = w
                       /\ IntStr(b) = r
                       /\ report.log[i]["Volume"] = a * b
               /\ ~(IsNumeral(w) /\ IsNumeral(r)) => report.log[i]["Volume"] = 0

\* the tab was rendered over a log with a set of 200 x 5, of volume 1000, and a
\* set whose weight cell is 'abc', of volume 0
C16_Witness ==
    /\ report.shown
    /\ \E i, j \in DOMAIN report.loaded :
         /\ report.loaded[i]["Weight (lbs)"] = "abc"
         /\ report.loaded[i]["Reps"] = "5"
         /\ report.log[i]["Volume"] = 0
         /\ report.loaded[j]["Weight (lbs)"] = "200"
         /\ report.loaded[j]["Reps"] = "5"
         /\ report.log[j]["Volume"] = 1000

\* C17: the personal records hold one row for each lift that has a row in the
\* filtered log and none for any other lift; its three entries are the greatest
\* weight, the greatest reps and the greatest volume over all filtered rows of
\* the lift, each on its own
C17_IndependentMaxima ==
    report.shown =>
      \A lift \in LiftsOfPool :
        LET rows == RowsOfLift(lift)
            recs == {p \in report.prs : p.lift = lift}
        IN  IF rows = {}
            THEN recs = {}
            ELSE /\ Cardinality(recs) = 1
                 /\ \A p \in recs :
                      /\ \E i \in rows : p.max_weight = report.log[i]["Weight (lbs)"]
                      /\ \A i \in rows : report.log[i]["Weight (lbs)"] <= p.max_weight
                      /\ \E i \in rows : p.max_reps = report.log[i]["Reps"]
                      /\ \A i \in rows : report.log[i]["Reps"] <= p.max_reps
                      /\ \E i \in rows : p.max_volume = report.log[i]["Volume"]
                      /\ \A i \in rows : report.log[i]["Volume"] <= p.max_volume

\* the log holds the sets 200 x 5 and 210 x 5 of Squat and nothing else; the
\* records of Squat are 210, 5 and 1050
C17_Witness ==
    /\ report.shown
    /\ report.flt = [wk |-> "All", d |-> "All", l |-> "All"]
    /\ Len(report.loaded) = 2
    /\ report.loaded[1]["Weight (lbs)"] = "200"
    /\ report.loaded[1]["Reps"] = "5"
    /\ report.loaded[2]["Weight (lbs)"] = "210"
    /\ report.loaded[2]["Reps"] = "5"
    /\ report.prs = {[lift |-> "Squat", max_weight |-> 210, max_reps |-> 5,
                      max_volume |-> 1050]}

\* C18: a run that renders the Progress tab and builds the export leaves the
\* log file, the custom days file and the undo file as they were, whatever the
\* filters
C18_ProgressWritesNothing ==
    [][(button' = "" /\ report'.shown /\ message' = "Rendered")
         => UNCHANGED <<log_file, custom_file, undo_file>>]_vars

\* the tab was rendered with the Week filter on 2 over a log of two rows, with
\* an undo file on disk, and the log file still holds the rows that were loaded
C18_Witness ==
    /\ report.shown
    /\ button = ""
    /\ report.flt.wk = "2"
    /\ Len(report.loaded) = 2
    /\ log_file.rows = report.loaded
    /\ undo_file.exists
    /\ custom_file.exists

-----------------------------------------------------------------------------
(* Properties of the V6.1 iteration *)

\* the custom days file holds at least one row of the day
HasOverrideV61(day) ==
    \E i \in DOMAIN custom_file.rows : custom_file.rows[i]["DayTag"] = day

\* C19: in V6.1 the plan shown for a day that has rows in the custom days file
\* holds them in ascending numeric Order
C19_OverrideSortedNumerically ==
    (shown.day # "" /\ HasOverrideV61(shown.day)) =>
      \A i, j \in DOMAIN shown.second :
         i < j => shown.second[i]["Order"] <= shown.second[j]["Order"]

-----------------------------------------------------------------------------
(* Frame of the layout buttons *)

\* the stored rows, as the program loads them, of every key but (week, day)
LoadedRowsOfOtherKeys(file, week, day) ==
    SelectSeq(load_custom_days(file),
              LAMBDA r : r["Week"] # week \/ r["DayTag"] # day)

\* C21: a run of Save Layout, Save New Layout or Reset to Default for one key
\* leaves the stored rows of all other keys as they were, the same rows in the
\* same sequence with the same Order, and leaves the log file and the undo file
\* as they were
C21_LayoutFrame ==
    [][(RunOf("save_layout") \/ RunOf("save_new") \/ RunOf("reset_layout")) =>
         /\ LoadedRowsOfOtherKeys(custom_file', edited'.week, edited'.day)
              = LoadedRowsOfOtherKeys(custom_file, edited'.week, edited'.day)
         /\ UNCHANGED <<log_file, undo_file>>]_vars

\* the layout of Week 2 Day 1, which only exists as stored rows, was saved from
\* the editor while the store held a row of Week 1 Day 2; that row is still
\* there, and so are the log and the undo buffer
C21_Witness ==
    /\ button = "save_layout"
    /\ edited.week = "2"
    /\ edited.day = "Day 1"
    /\ FileRowsOf(custom_file, "2", "Day 1") # <<>>
    /\ FileRowsOf(custom_file, "1", "Day 2") = <<StoreRow("1", "Day 2", "1", "Curl")>>
    /\ undo_file.exists
    /\ log_file.rows # <<>>

-----------------------------------------------------------------------------
(* Safety of the undo *)

\* C22: an undo that finds rows in the buffer removes from the log only rows
\* that equal a row of the buffer on every column, leaves no such row in the
\* log, and keeps every other row in its place, whichever tab it is pressed on
C22_UndoSafety ==
    [][(RunOf("undo_bulk") /\ message' = "Last bulk save undone.") =>
         LET before == load_logs(log_file)
             after == log_file'.rows
             buf == Range(undo_file.rows)
         IN  /\ \A r \in Range(before) \ Range(after) : r \in buf
             /\ \A r \in Range(after) : r \notin buf
             /\ after = SelectSeq(before, LAMBDA r : r \in Range(after))
             /\ edited'.week \in Weeks]_vars

\* a bulk of Week 1 written at minute 1 was undone from the Week 2 tab: the
\* log keeps a set of one of the bulk's lifts that a single Save appended at
\* minute 2, and no row of the bulk
C22_Witness ==
    /\ button = "undo_bulk"
    /\ message = "Last bulk save undone."
    /\ edited.week = "2"
    /\ lastBulk # <<>>
    /\ \A j \in DOMAIN lastBulk :
         /\ lastBulk[j]["Week"] = "1"
         /\ lastBulk[j]["Date"] = DateStr(1)
         /\ \A i \in DOMAIN log_file.rows : log_file.rows[i] # lastBulk[j]
    /\ \E i \in DOMAIN log_file.rows : \E j \in DOMAIN lastBulk :
         /\ log_file.rows[i]["Date"] = DateStr(2)
         /\ log_file.rows[i]["Week"] = "1"
         /\ log_file.rows[i]["Lift / Exercise"] = lastBulk[j]["Lift / Exercise"]

-----------------------------------------------------------------------------
(* The Reset tab behind the Progress tab *)

\* a run in which a button of the Reset tab took effect
ResetTabRun == RunOf("clear_logs") \/ RunOf("clear_custom") \/ RunOf("clear_undo")

\* C23: while the log file holds no row no button of the Reset tab can take
\* effect, and every run in which one takes effect starts with a log file that
\* holds a row; the custom days file and the undo file are cleared from the
\* Reset tab in such runs only
C23_ResetTabNeedsLog ==
    /\ [](load_logs(log_file) = <<>> =>
            ~ENABLED (ClearLogs \/ ClearCustomDays \/ ClearUndo))
    /\ [][ResetTabRun => load_logs(log_file) # <<>>]_vars

\* Clear All Logs has emptied the log while the custom days file holds rows and
\* the undo buffer is on disk: neither can be cleared from the Reset tab now
C23_Witness ==
    /\ button = "clear_logs"
    /\ load_logs(log_file) = <<>>
    /\ custom_file.rows # <<>>
    /\ undo_file.exists
    /\ ~ENABLED (ClearCustomDays \/ ClearUndo)

====
